---- MODULE Spec2Model ----
(***************************************************************************)
(* Message Logger module (src/src/message_logger.c, message_logger.h).     *)
(*                                                                         *)
(* The module's state is process wide: the colour pallet, the time format  *)
(* buffer, the log file handle and the optional recursive mutex.  Every    *)
(* public function is modelled step by step so that calls of different     *)
(* threads interleave exactly where the code lets them.                    *)
(***************************************************************************)
EXTENDS Integers, Sequences, FiniteSets, TLC

(***************************************************************************)
(* Bounds of the model.                                                    *)
(***************************************************************************)
\* Number of calls started in one behaviour of Spec.
MaxCalls == 2
\* Number of calls started in one behaviour of SpecEmit.
MaxEmitCalls == 3
\* Number of calls started in one behaviour of SpecLock.
MaxLockCalls == 4
\* Number of calls started in one behaviour of SpecReset.
MaxResetCalls == 3
\* Number of calls started in one behaviour of SpecColors.
MaxColorCalls == 3
\* Number of calls started in one behaviour of SpecTime.
MaxTimeCalls == 3
\* Number of calls started in one behaviour of SpecFile.
MaxFileCalls == 4
\* Number of calls started in one behaviour of SpecTeardown.
MaxTeardownCalls == 3
\* Number of calls started in one behaviour of SpecWrite.
MaxWriteCalls == 2
\* Number of calls started in one behaviour of FairGuard.
MaxGuardCalls == 2
\* Number of calls started in one behaviour of SpecConfigure.
MaxConfigureCalls == 2
\* Number of calls started in one behaviour of SpecLifecycle.
MaxLifecycleCalls == 4
\* Number of calls started in one behaviour of SpecStyle.
MaxStyleCalls == 3
\* Number of calls started in one behaviour of SpecNull.
MaxNullCalls == 4
\* Number of calls started in one behaviour of SpecStamp.
MaxStampCalls == 3
\* Number of calls started in one behaviour of SpecBalance.
MaxBalanceCalls == 2
\* Number of times malloc() hands out a mutex in one behaviour.
MaxLocks == 2

Threads == {1, 2}
NoThread == 0

(***************************************************************************)
(* Enumerations and macros of message_logger.h.                            *)
(***************************************************************************)
Color == {"BLA", "RED", "GRN", "YEL", "BLU", "MAG", "CYN", "WHT",
          "B_BLA", "B_RED", "B_GRN", "B_YEL", "B_BLU", "B_MAG", "B_CYN",
          "B_WHT", "DFLT"}

LogFileMode == {"WRITE", "APPEND"}

MessageCategory == {"DEFAULT_MSG", "ERROR_MSG", "INFO_MSG", "SUCCESS_MSG",
                    "WARNING_MSG"}

TagCategory == {"CONTEXT_TAG", "ERROR_TAG", "INFO_TAG", "SUCCESS_TAG",
                "WARNING_TAG"}

\* The enumerators in declaration order: the order of the reset loops.
MessageCategoryOrder == <<"DEFAULT_MSG", "ERROR_MSG", "INFO_MSG",
                          "SUCCESS_MSG", "WARNING_MSG">>

TagCategoryOrder == <<"CONTEXT_TAG", "ERROR_TAG", "INFO_TAG", "SUCCESS_TAG",
                      "WARNING_TAG">>

NUM_OF_MESSAGE_CATEGORIES == 5
NUM_OF_TAG_CATEGORIES == 5
TIME_FMT_SIZE == 50

DisplayColors(text, background) ==
  [background_color |-> background, text_color |-> text]

DEFAULT_LOGGER_MESSAGE_COLORS ==
  [c \in MessageCategory |-> DisplayColors("DFLT", "DFLT")]

DEFAULT_LOGGER_TAG_COLORS ==
  [c \in TagCategory |->
     CASE c = "CONTEXT_TAG" -> DisplayColors("B_WHT", "DFLT")
       [] c = "ERROR_TAG"   -> DisplayColors("B_RED", "DFLT")
       [] c = "INFO_TAG"    -> DisplayColors("B_BLU", "DFLT")
       [] c = "SUCCESS_TAG" -> DisplayColors("B_GRN", "DFLT")
       [] c = "WARNING_TAG" -> DisplayColors("B_YEL", "DFLT")]

default_color_pallet ==
  [message_colors |-> DEFAULT_LOGGER_MESSAGE_COLORS,
   tag_colors     |-> DEFAULT_LOGGER_TAG_COLORS]

(***************************************************************************)
(* C strings.  A character is a one-character string, NUL is the           *)
(* terminator.  A C string argument is given by the characters before its  *)
(* terminator; a buffer is a sequence of exactly TIME_FMT_SIZE cells.      *)
(***************************************************************************)
NUL == "NUL"

strlen(s) == Len(s)

\* Index of the first NUL of a buffer, 0 when the buffer holds none.
FirstNul(buf) ==
  IF \E i \in 1..Len(buf) : buf[i] = NUL
    THEN CHOOSE i \in 1..Len(buf) :
           buf[i] = NUL /\ \A j \in 1..(i - 1) : buf[j] # NUL
    ELSE 0

\* The characters strncpy() reads from a buffer of n cells: it stops at the
\* first NUL, or after n characters.
CharsOf(buf) ==
  IF FirstNul(buf) = 0 THEN buf ELSE SubSeq(buf, 1, FirstNul(buf) - 1)

\* strncpy(dst, src, n): the first n characters of src, padded with NUL up to
\* n cells; no terminator is written when src has n characters or more.
strncpy(src, n) ==
  [i \in 1..n |-> IF i <= Len(src) THEN src[i] ELSE NUL]

\* Reading a buffer as a C string (printf("%s"), strftime): the characters up
\* to the first NUL.  A buffer without a NUL is read past its end, which is
\* undefined: the read continues into whatever follows the buffer.
AdjacentMemory == {<<>>, <<"?">>}

StringRead(buf, tail) ==
  IF FirstNul(buf) = 0 THEN buf \o tail ELSE CharsOf(buf)

DefaultTimeFormat ==
  <<"%", "H", ":", "%", "M", ":", "%", "S", " ",
    "%", "d", "-", "%", "m", "-", "%", "Y">>

(***************************************************************************)
(* printf-style formatting.  A format is a sequence of tokens; "%d" and    *)
(* "%u" are conversions that consume the next argument of the va_list, and *)
(* "\n" is the newline.  A va_list is the argument sequence with a cursor. *)
(***************************************************************************)
va_start(args) == [args |-> args, pos |-> 1]

va_copy(ap) == ap

RECURSIVE vformat(_, _)
vformat(fmt, ap) ==
  IF fmt = <<>> THEN <<>>
  ELSE IF Head(fmt) \in {"%d", "%u"}
    THEN (IF ap.pos <= Len(ap.args)
            THEN <<ap.args[ap.pos]>> ELSE <<"?">>)
         \o vformat(Tail(fmt), [ap EXCEPT !.pos = @ + 1])
    ELSE <<Head(fmt)>> \o vformat(Tail(fmt), ap)

\* The cursor of a va_list after a v*printf() call consumed it.
RECURSIVE vconsumed(_, _)
vconsumed(fmt, ap) ==
  IF fmt = <<>> THEN ap
  ELSE IF Head(fmt) \in {"%d", "%u"}
    THEN vconsumed(Tail(fmt), [ap EXCEPT !.pos = @ + 1])
    ELSE vconsumed(Tail(fmt), ap)

(***************************************************************************)
(* The five emitters differ only in tag text and colour table entries.     *)
(***************************************************************************)
Emitters == {"message", "error", "info", "success", "warning"}

\* msg_type of the emitter; message() has none.
NoTag == "<no tag>"

msg_type(kind) ==
  CASE kind = "error"   -> "(Error)"
    [] kind = "info"    -> "(Info)"
    [] kind = "success" -> "(Success)"
    [] kind = "warning" -> "(Warning)"
    [] kind = "message" -> NoTag

TagOf(kind) ==
  CASE kind = "error"   -> "ERROR_TAG"
    [] kind = "info"    -> "INFO_TAG"
    [] kind = "success" -> "SUCCESS_TAG"
    [] kind = "warning" -> "WARNING_TAG"

\* Mutant: every emitter takes the colours of the default message.
MsgOf_Default(kind) == "DEFAULT_MSG"

MsgOf(kind) ==
  CASE kind = "error"   -> "ERROR_MSG"
    [] kind = "info"    -> "INFO_MSG"
    [] kind = "success" -> "SUCCESS_MSG"
    [] kind = "warning" -> "WARNING_MSG"
    [] kind = "message" -> "DEFAULT_MSG"

\* A NULL context pointer.
NullContext == "<NULL>"

(***************************************************************************)
(* State.                                                                  *)
(***************************************************************************)
VARIABLES
  time_fmt,               \* static char time_fmt[TIME_FMT_SIZE]
  log_file,               \* static FILE *log_file: 0 is NULL, else a stream
  logger_color_pallet,    \* static LoggerColorPallet logger_color_pallet
  logger_recursive_mutex, \* static pthread_mutex_t *: 0 is NULL, else a lock
  locks,                  \* the mutexes malloc() handed out, by address
  streams,                \* the FILE streams fopen() handed out
  files,                  \* the file system: path -> [exists, content]
  terminal,               \* what was written to stdout, in order
  pc,                     \* per thread: position in its public call
  frame,                  \* per thread: the public call it executes
  em,                     \* per thread: the emitter call it executes
  hist,                   \* the public calls that returned, in order
  calls,                  \* number of calls started (public and emitter)
  holds                   \* per thread: user lock calls minus user unlocks

vars == <<time_fmt, log_file, logger_color_pallet, logger_recursive_mutex,
          locks, streams, files, terminal, pc, frame, em, hist, calls, holds>>

shared == <<time_fmt, log_file, logger_color_pallet, logger_recursive_mutex,
            locks, streams, files, terminal>>

NoFrame == [id |-> 0, op |-> "none", args |-> <<>>, i |-> 0, out |-> <<>>]

NoEm == [active |-> FALSE, id |-> 0, kind |-> "none", context |-> NullContext,
         format |-> <<>>, arg_list |-> va_start(<<>>), pc |-> "none",
         next |-> "none", stream |-> 0]

Absent == [exists |-> FALSE, content |-> <<>>]

Init ==
  /\ time_fmt = strncpy(DefaultTimeFormat, TIME_FMT_SIZE)
  /\ log_file = 0
  /\ logger_color_pallet = default_color_pallet
  /\ logger_recursive_mutex = 0
  /\ locks = <<>>
  /\ streams = <<>>
  /\ files = [p \in {"a.log", "b.log"} |-> Absent]
  /\ terminal = <<>>
  /\ pc = [t \in Threads |-> "idle"]
  /\ frame = [t \in Threads |-> NoFrame]
  /\ em = [t \in Threads |-> NoEm]
  /\ hist = <<>>
  /\ calls = 0
  /\ holds = [t \in Threads |-> 0]

(***************************************************************************)
(* pthread recursive mutex.  A lock is [state, owner, count].              *)
(***************************************************************************)
NewLock == [state |-> "live", owner |-> NoThread, count |-> 0]

\* Mutant: the mutex is not recursive, its owner is suspended as well.
MutexFree_NotRecursive(lk, t) == lk.owner = NoThread

\* pthread_mutex_lock() returns at once when the mutex is free or owned by
\* the caller (PTHREAD_MUTEX_RECURSIVE), otherwise the caller is suspended.
MutexFree(lk, t) == lk.owner \in {NoThread, t}

pthread_mutex_lock(lk, t) == [lk EXCEPT !.owner = t, !.count = @ + 1]

\* Mutant: the mutex does not count, the first unlock releases it.
pthread_mutex_unlock_NotCounted(lk, t) ==
  IF lk.owner = t /\ lk.count > 0
    THEN [lk EXCEPT !.count = 0, !.owner = NoThread]
    ELSE lk

\* pthread_mutex_unlock() of a recursive mutex the caller does not own fails
\* with EPERM and changes nothing; the owner is released at count zero.
pthread_mutex_unlock(lk, t) ==
  IF lk.owner = t /\ lk.count > 0
    THEN [lk EXCEPT !.count = @ - 1,
                    !.owner = IF lk.count = 1 THEN NoThread ELSE t]
    ELSE lk

\* if(logger_recursive_mutex != NULL) pthread_mutex_lock(...): can it return?
CanLock(t) ==
  IF logger_recursive_mutex = 0 THEN TRUE
  ELSE MutexFree(locks[logger_recursive_mutex], t)

AfterLock(t) ==
  IF logger_recursive_mutex = 0 THEN locks
  ELSE [locks EXCEPT ![logger_recursive_mutex] = pthread_mutex_lock(@, t)]

\* if(logger_recursive_mutex != NULL) pthread_mutex_unlock(...)
AfterUnlock(t) ==
  IF logger_recursive_mutex = 0 THEN locks
  ELSE [locks EXCEPT ![logger_recursive_mutex] = pthread_mutex_unlock(@, t)]

\* The calling thread owns the mutex the handle points to.
HoldsGuard(t) ==
  IF logger_recursive_mutex = 0 THEN FALSE
  ELSE /\ locks[logger_recursive_mutex].owner = t
       /\ locks[logger_recursive_mutex].count > 0

(***************************************************************************)
(* stdio.  A stream is [path, open]; a file is [exists, content], content  *)
(* being the sequence of the items written to it.                          *)
(***************************************************************************)
Paths == DOMAIN files

\* Mutant: fopen() never truncates the file.
fopen_files_Keep(path, mode) ==
  IF ~files[path].exists
    THEN [files EXCEPT ![path] = [exists |-> TRUE, content |-> <<>>]]
    ELSE files

\* fopen(path, "w"): creates or truncates the file.
\* fopen(path, "a"): creates the file when it does not exist, keeps its
\* contents otherwise.
fopen_files(path, mode) ==
  IF mode = "w" \/ ~files[path].exists
    THEN [files EXCEPT ![path] = [exists |-> TRUE, content |-> <<>>]]
    ELSE files

fopen_streams(path) == Append(streams, [path |-> path, open |-> TRUE])

fclose(h) == [streams EXCEPT ![h].open = FALSE]

\* fprintf(stream, ...) of one item.  Writing to a stream that was closed is
\* undefined: the item is lost, or lands in the stream that reuses the FILE.
fprintf(h, item, reuse) ==
  IF streams[h].open
    THEN [files EXCEPT ![streams[h].path].content = Append(@, item)]
    ELSE IF reuse /\ log_file # 0
      THEN [files EXCEPT ![streams[log_file].path].content = Append(@, item)]
      ELSE files

\* strftime() expansion of a format: every conversion %X becomes a field of
\* fixed width, every other character is copied.
FieldWidth(c) ==
  CASE c = "Y" -> 4
    [] c = "c" -> 24
    [] OTHER   -> 2

RECURSIVE strftime(_)
strftime(fmt) ==
  IF fmt = <<>> THEN <<>>
  ELSE IF Head(fmt) = "%" /\ Len(fmt) >= 2
    THEN [i \in 1..FieldWidth(fmt[2]) |-> fmt[2]]
         \o strftime(SubSeq(fmt, 3, Len(fmt)))
    ELSE <<Head(fmt)>> \o strftime(Tail(fmt))

\* char time_string[40]: strftime(time_string, 40, ...) stores the expansion
\* when it fits with its terminator; otherwise it returns 0 and the array,
\* never initialised, holds indeterminate bytes.
TimeStringSize == 40

Indeterminate == {<<>>, <<"?">>}

time_string(fmt, garbage) ==
  IF Len(strftime(fmt)) < TimeStringSize THEN strftime(fmt) ELSE garbage

(***************************************************************************)
(* Bookkeeping of calls.                                                   *)
(***************************************************************************)
TermItem(t, id, part, val) == [t |-> t, call |-> id, part |-> part, val |-> val]

FileItem(t, id, part, val) == [t |-> t, call |-> id, part |-> part, val |-> val]

\* A thread enters a public function.
Call(t, op, args, first) ==
  /\ pc[t] = "idle"
  /\ calls' = calls + 1
  /\ frame' = [frame EXCEPT ![t] = [id |-> calls + 1, op |-> op,
                                    args |-> args, i |-> 0, out |-> <<>>]]
  /\ pc' = [pc EXCEPT ![t] = first]

\* A public function returns.
Return(t, ret, out) ==
  /\ pc' = [pc EXCEPT ![t] = "idle"]
  /\ frame' = [frame EXCEPT ![t] = NoFrame]
  /\ hist' = Append(hist, [t |-> t, id |-> frame[t].id, op |-> frame[t].op,
                            args |-> frame[t].args, ret |-> ret, out |-> out])

\* The emitter call a function makes on itself (error(), warning()); the
\* caller resumes at label next when the emitter returns.
Emitter(id, kind, context, format, args, next) ==
  [active |-> TRUE, id |-> id, kind |-> kind, context |-> context,
   format |-> format, arg_list |-> va_start(args), pc |-> "lock",
   next |-> next, stream |-> 0]

Report(t, kind, format, args, next) ==
  /\ em' = [em EXCEPT ![t] =
              Emitter(calls + 1, kind, "Logger module", format, args, next)]
  /\ calls' = calls + 1
  /\ pc' = [pc EXCEPT ![t] = "emit"]

(***************************************************************************)
(* color_text(), color_background(), reset_colors(): lock, printf of the   *)
(* escape sequence(s), unlock.  The three statements are one step: the     *)
(* lock is taken and given back by the same call, so the step is possible  *)
(* exactly when the lock can be taken, and leaves the mutex as it was.     *)
(***************************************************************************)
color_text(t, id, p_color) ==
  /\ CanLock(t)
  /\ terminal' = Append(terminal, TermItem(t, id, "color_text", p_color))

color_background(t, id, p_color) ==
  /\ CanLock(t)
  /\ terminal' = Append(terminal, TermItem(t, id, "color_background", p_color))

\* Mutant: reset_colors() prints nothing.
reset_colors_Nothing(t, id) ==
  /\ CanLock(t)
  /\ UNCHANGED terminal

reset_colors(t, id) ==
  /\ CanLock(t)
  /\ terminal' = Append(terminal, TermItem(t, id, "reset_colors", "DFLT"))

(***************************************************************************)
(* The emitters message(), error(), info(), success(), warning().          *)
(***************************************************************************)
EmAt(t, label) == em[t].active /\ em[t].pc = label

EmGoto(t, label) == em' = [em EXCEPT ![t].pc = label]

AfterContext(kind) == IF kind = "message" THEN "msg_text" ELSE "tag_text"

\* Mutant: the emitter starts to print without acquiring the lock.
EmLock_NoLock(t) ==
  /\ EmAt(t, "lock")
  /\ EmGoto(t, IF em[t].context # NullContext
                 THEN "ctx_text" ELSE AfterContext(em[t].kind))
  /\ UNCHANGED <<time_fmt, log_file, logger_color_pallet,
                 logger_recursive_mutex, locks, streams, files, terminal, pc,
                 frame, hist, calls, holds>>

\* if(logger_recursive_mutex != NULL) pthread_mutex_lock(...)
EmLock(t) ==
  /\ EmAt(t, "lock")
  /\ CanLock(t)
  /\ locks' = AfterLock(t)
  /\ EmGoto(t, IF em[t].context # NullContext
                 THEN "ctx_text" ELSE AfterContext(em[t].kind))
  /\ UNCHANGED <<time_fmt, log_file, logger_color_pallet,
                 logger_recursive_mutex, streams, files, terminal, pc, frame,
                 hist, calls, holds>>

\* print_context(): colours of the context tag, then "context: ".
EmContextText(t) ==
  /\ EmAt(t, "ctx_text")
  /\ color_text(t, em[t].id,
                logger_color_pallet.tag_colors["CONTEXT_TAG"].text_color)
  /\ EmGoto(t, "ctx_bg")
  /\ UNCHANGED <<time_fmt, log_file, logger_color_pallet,
                 logger_recursive_mutex, locks, streams, files, pc, frame,
                 hist, calls, holds>>

EmContextBackground(t) ==
  /\ EmAt(t, "ctx_bg")
  /\ color_background(t, em[t].id,
       logger_color_pallet.tag_colors["CONTEXT_TAG"].background_color)
  /\ EmGoto(t, "ctx_print")
  /\ UNCHANGED <<time_fmt, log_file, logger_color_pallet,
                 logger_recursive_mutex, locks, streams, files, pc, frame,
                 hist, calls, holds>>

EmContextPrint(t) ==
  /\ EmAt(t, "ctx_print")
  /\ terminal' = Append(terminal,
                        TermItem(t, em[t].id, "context", em[t].context))
  /\ EmGoto(t, AfterContext(em[t].kind))
  /\ UNCHANGED <<time_fmt, log_file, logger_color_pallet,
                 logger_recursive_mutex, locks, streams, files, pc, frame,
                 hist, calls, holds>>

\* Print tags: colours of the emitter's tag, then printf("%s ", msg_type).
EmTagText(t) ==
  /\ EmAt(t, "tag_text")
  /\ color_text(t, em[t].id,
                logger_color_pallet.tag_colors[TagOf(em[t].kind)].text_color)
  /\ EmGoto(t, "tag_bg")
  /\ UNCHANGED <<time_fmt, log_file, logger_color_pallet,
                 logger_recursive_mutex, locks, streams, files, pc, frame,
                 hist, calls, holds>>

EmTagBackground(t) ==
  /\ EmAt(t, "tag_bg")
  /\ color_background(t, em[t].id,
       logger_color_pallet.tag_colors[TagOf(em[t].kind)].background_color)
  /\ EmGoto(t, "tag_print")
  /\ UNCHANGED <<time_fmt, log_file, logger_color_pallet,
                 logger_recursive_mutex, locks, streams, files, pc, frame,
                 hist, calls, holds>>

EmTagPrint(t) ==
  /\ EmAt(t, "tag_print")
  /\ terminal' = Append(terminal,
                        TermItem(t, em[t].id, "tag", msg_type(em[t].kind)))
  /\ EmGoto(t, "msg_text")
  /\ UNCHANGED <<time_fmt, log_file, logger_color_pallet,
                 logger_recursive_mutex, locks, streams, files, pc, frame,
                 hist, calls, holds>>

\* Print message contents: colours of the emitter's category, then
\* print_formatted_text(), which formats from a copy of the va_list.
EmMessageText(t) ==
  /\ EmAt(t, "msg_text")
  /\ color_text(t, em[t].id,
       logger_color_pallet.message_colors[MsgOf(em[t].kind)].text_color)
  /\ EmGoto(t, "msg_bg")
  /\ UNCHANGED <<time_fmt, log_file, logger_color_pallet,
                 logger_recursive_mutex, locks, streams, files, pc, frame,
                 hist, calls, holds>>

EmMessageBackground(t) ==
  /\ EmAt(t, "msg_bg")
  /\ color_background(t, em[t].id,
       logger_color_pallet.message_colors[MsgOf(em[t].kind)].background_color)
  /\ EmGoto(t, "msg_print")
  /\ UNCHANGED <<time_fmt, log_file, logger_color_pallet,
                 logger_recursive_mutex, locks, streams, files, pc, frame,
                 hist, calls, holds>>

print_formatted_text(text_format, text_args) ==
  vformat(text_format, va_copy(text_args))

EmMessagePrint(t) ==
  /\ EmAt(t, "msg_print")
  /\ terminal' = Append(terminal,
       TermItem(t, em[t].id, "body",
                print_formatted_text(em[t].format, em[t].arg_list)))
  /\ EmGoto(t, "reset")
  /\ UNCHANGED <<time_fmt, log_file, logger_color_pallet,
                 logger_recursive_mutex, locks, streams, files, pc, frame,
                 hist, calls, holds>>

\* Mutant: the critical section ends with the terminal writes; the message
\* is written to the file after the lock is released.
EmReset_Released(t) ==
  /\ EmAt(t, "reset")
  /\ reset_colors(t, em[t].id)
  /\ locks' = AfterUnlock(t)
  /\ EmGoto(t, "log")
  /\ UNCHANGED <<time_fmt, log_file, logger_color_pallet,
                 logger_recursive_mutex, streams, files, pc, frame, hist,
                 calls, holds>>

\* Reset display colors.
EmReset(t) ==
  /\ EmAt(t, "reset")
  /\ reset_colors(t, em[t].id)
  /\ EmGoto(t, "log")
  /\ UNCHANGED <<time_fmt, log_file, logger_color_pallet,
                 logger_recursive_mutex, locks, streams, files, pc, frame,
                 hist, calls, holds>>

\* Mutant: the lock is released before the message is written to the file.
EmLogCheck_Unlocked(t) ==
  /\ EmAt(t, "log")
  /\ locks' = AfterUnlock(t)
  /\ em' = [em EXCEPT ![t].stream = log_file,
                      ![t].pc = IF log_file # 0 THEN "log_datetime"
                                ELSE "unlock"]
  /\ UNCHANGED <<time_fmt, log_file, logger_color_pallet,
                 logger_recursive_mutex, streams, files, terminal, pc,
                 frame, hist, calls, holds>>

\* if(log_file != NULL) log_message(log_file, time_fmt, ...): the stream is
\* passed by value.
EmLogCheck(t) ==
  /\ EmAt(t, "log")
  /\ em' = [em EXCEPT ![t].stream = log_file,
                      ![t].pc = IF log_file # 0 THEN "log_datetime"
                                ELSE "unlock"]
  /\ UNCHANGED <<time_fmt, log_file, logger_color_pallet,
                 logger_recursive_mutex, locks, streams, files, terminal, pc,
                 frame, hist, calls, holds>>

\* log_datetime(): "[<strftime of the format>] ".
log_datetime(str_format, garbage) == time_string(str_format, garbage)

EmLogDatetime(t) ==
  /\ EmAt(t, "log_datetime")
  /\ \E tail \in AdjacentMemory, garbage \in Indeterminate, reuse \in BOOLEAN :
       files' = fprintf(em[t].stream,
                  FileItem(t, em[t].id, "datetime",
                           log_datetime(StringRead(time_fmt, tail), garbage)),
                  reuse)
  /\ EmGoto(t, IF em[t].context # NullContext THEN "log_context"
               ELSE IF msg_type(em[t].kind) # NoTag THEN "log_type"
               ELSE "log_text")
  /\ UNCHANGED <<time_fmt, log_file, logger_color_pallet,
                 logger_recursive_mutex, locks, streams, terminal, pc, frame,
                 hist, calls, holds>>

\* if(msg_context != NULL) fprintf(log_file, "%s: ", msg_context)
EmLogContext(t) ==
  /\ EmAt(t, "log_context")
  /\ \E reuse \in BOOLEAN :
       files' = fprintf(em[t].stream,
                  FileItem(t, em[t].id, "context", em[t].context), reuse)
  /\ EmGoto(t, IF msg_type(em[t].kind) # NoTag THEN "log_type"
               ELSE "log_text")
  /\ UNCHANGED <<time_fmt, log_file, logger_color_pallet,
                 logger_recursive_mutex, locks, streams, terminal, pc, frame,
                 hist, calls, holds>>

\* if(msg_type != NULL) fprintf(log_file, "%s ", msg_type)
EmLogType(t) ==
  /\ EmAt(t, "log_type")
  /\ \E reuse \in BOOLEAN :
       files' = fprintf(em[t].stream,
                  FileItem(t, em[t].id, "tag", msg_type(em[t].kind)), reuse)
  /\ EmGoto(t, "log_text")
  /\ UNCHANGED <<time_fmt, log_file, logger_color_pallet,
                 logger_recursive_mutex, locks, streams, terminal, pc, frame,
                 hist, calls, holds>>

\* Mutant: the text is formatted from the va_list that the terminal output
\* has consumed: the conversions read what lies after the arguments (0).
log_formatted_text_content_Consumed(text_format, text_args) ==
  vformat(text_format,
          [text_args EXCEPT
             !.args = SubSeq(@, vconsumed(text_format, text_args).pos, Len(@))
                      \o [k \in 1..Len(@) |-> 0]])

\* log_formatted_text_content(): formats from its own copy of the va_list.
log_formatted_text_content(text_format, text_args) ==
  vformat(text_format, va_copy(text_args))

EmLogText(t) ==
  /\ EmAt(t, "log_text")
  /\ \E reuse \in BOOLEAN :
       files' = fprintf(em[t].stream,
                  FileItem(t, em[t].id, "body",
                    log_formatted_text_content(em[t].format, em[t].arg_list)),
                  reuse)
  /\ EmGoto(t, "unlock")
  /\ UNCHANGED <<time_fmt, log_file, logger_color_pallet,
                 logger_recursive_mutex, locks, streams, terminal, pc, frame,
                 hist, calls, holds>>

\* if(logger_recursive_mutex != NULL) pthread_mutex_unlock(...); va_end();
\* the emitter returns, to its caller when a logger function called it.
EmUnlock(t) ==
  /\ EmAt(t, "unlock")
  /\ locks' = AfterUnlock(t)
  /\ em' = [em EXCEPT ![t] = NoEm]
  /\ IF frame[t].op \in Emitters
       THEN Return(t, 0, <<>>)
       ELSE /\ pc' = [pc EXCEPT ![t] = em[t].next]
            /\ UNCHANGED <<frame, hist>>
  /\ UNCHANGED <<time_fmt, log_file, logger_color_pallet,
                 logger_recursive_mutex, streams, files, terminal, calls,
                 holds>>

\* The steps that write to the terminal, and the steps of log_message().
TerminalStep(t) ==
  \/ EmLock(t)
  \/ EmContextText(t)
  \/ EmContextBackground(t)
  \/ EmContextPrint(t)
  \/ EmTagText(t)
  \/ EmTagBackground(t)
  \/ EmTagPrint(t)
  \/ EmMessageText(t)
  \/ EmMessageBackground(t)
  \/ EmMessagePrint(t)
  \/ EmReset(t)
  \/ EmLogCheck(t)
  \/ EmUnlock(t)

LogStep(t) ==
  \/ EmLogDatetime(t)
  \/ EmLogContext(t)
  \/ EmLogType(t)
  \/ EmLogText(t)

\* A thread calls an emitter.
Emit(t, kind, context, format, args) ==
  /\ Call(t, kind, <<context, format, args>>, "emit")
  /\ em' = [em EXCEPT ![t] =
              Emitter(calls + 1, kind, context, format, args, "done")]
  /\ UNCHANGED <<shared, hist, holds>>

(***************************************************************************)
(* Steps shared by the getters and setters.                                *)
(***************************************************************************)
Goto(t, label) == pc' = [pc EXCEPT ![t] = label]

At(t, op, label) == frame[t].op = op /\ pc[t] = label

\* Where a function continues once it holds the lock.
Locked(op) ==
  CASE op = "reset_logger_colors" -> "reset_msg"
    [] op = "configure_log_file"  -> "close"
    [] OTHER                      -> "body"

\* Mutant: the function goes on without acquiring the lock.
AcquireLock_Skipped(t) ==
  /\ pc[t] = "lock"
  /\ Goto(t, Locked(frame[t].op))
  /\ UNCHANGED <<time_fmt, log_file, logger_color_pallet,
                 logger_recursive_mutex, locks, streams, files, terminal,
                 frame, em, hist, calls, holds>>

\* Acquire logger recursive lock if thread safety is enabled.
AcquireLock(t) ==
  /\ pc[t] = "lock"
  /\ CanLock(t)
  /\ locks' = AfterLock(t)
  /\ Goto(t, Locked(frame[t].op))
  /\ UNCHANGED <<time_fmt, log_file, logger_color_pallet,
                 logger_recursive_mutex, streams, files, terminal, frame, em,
                 hist, calls, holds>>

\* Mutant: the function returns 0 without releasing the lock.
ReleaseLock_Kept(t) ==
  /\ pc[t] = "unlock"
  /\ Return(t, 0, frame[t].out)
  /\ UNCHANGED <<time_fmt, log_file, logger_color_pallet,
                 logger_recursive_mutex, locks, streams, files, terminal, em,
                 calls, holds>>

\* Release logger recursive lock if thread safety is enabled; return 0.
ReleaseLock(t) ==
  /\ pc[t] = "unlock"
  /\ locks' = AfterUnlock(t)
  /\ Return(t, 0, frame[t].out)
  /\ UNCHANGED <<time_fmt, log_file, logger_color_pallet,
                 logger_recursive_mutex, streams, files, terminal, em, calls,
                 holds>>

\* return -1 after the error message was printed.
ReturnError(t) ==
  /\ pc[t] = "fail"
  /\ Return(t, -1, <<>>)
  /\ UNCHANGED <<shared, em, calls, holds>>

\* Return of a void function after its warning was printed.
ReturnVoid(t) ==
  /\ pc[t] = "return"
  /\ Return(t, 0, <<>>)
  /\ UNCHANGED <<shared, em, calls, holds>>

\* Mutant: a NULL pointer is refused without an error message.
NullCheck_Silent(t, op, text) ==
  /\ At(t, op, "check")
  /\ Goto(t, IF frame[t].args[1] THEN "lock" ELSE "fail")
  /\ UNCHANGED <<shared, frame, em, hist, calls, holds>>

\* if(pointer == NULL) { error(...); return -1; }
NullCheck(t, op, text) ==
  /\ At(t, op, "check")
  /\ IF frame[t].args[1]
       THEN Goto(t, "lock") /\ UNCHANGED <<em, calls>>
       ELSE Report(t, "error",
                   <<text, " Please use a valid reference.", "\n">>, <<>>,
                   "fail")
  /\ UNCHANGED <<shared, frame, hist, holds>>

copy_display_colors(origin) ==
  [background_color |-> origin.background_color,
   text_color       |-> origin.text_color]

(***************************************************************************)
(* get_logger_msg_colors(destination, category)                            *)
(***************************************************************************)
GetMsgColorsCall(t, valid, category) ==
  /\ Call(t, "get_logger_msg_colors", <<valid, category>>, "check")
  /\ UNCHANGED <<shared, em, hist, holds>>

GetMsgColorsCheck(t) ==
  NullCheck(t, "get_logger_msg_colors",
            "Cannot store display color information in NULL pointer!")

GetMsgColorsCopy(t) ==
  /\ At(t, "get_logger_msg_colors", "body")
  /\ frame' = [frame EXCEPT ![t].out = copy_display_colors(
                 logger_color_pallet.message_colors[frame[t].args[2]])]
  /\ Goto(t, "unlock")
  /\ UNCHANGED <<shared, em, hist, calls, holds>>

(***************************************************************************)
(* get_logger_tag_colors(destination, category)                            *)
(***************************************************************************)
GetTagColorsCall(t, valid, category) ==
  /\ Call(t, "get_logger_tag_colors", <<valid, category>>, "check")
  /\ UNCHANGED <<shared, em, hist, holds>>

GetTagColorsCheck(t) ==
  NullCheck(t, "get_logger_tag_colors",
            "Cannot store display color information in NULL pointer!")

GetTagColorsCopy(t) ==
  /\ At(t, "get_logger_tag_colors", "body")
  /\ frame' = [frame EXCEPT ![t].out = copy_display_colors(
                 logger_color_pallet.tag_colors[frame[t].args[2]])]
  /\ Goto(t, "unlock")
  /\ UNCHANGED <<shared, em, hist, calls, holds>>

(***************************************************************************)
(* set_logger_msg_colors(category, assigned_colors)                        *)
(***************************************************************************)
SetMsgColorsCall(t, valid, category, assigned_colors) ==
  /\ Call(t, "set_logger_msg_colors", <<valid, category, assigned_colors>>,
          "check")
  /\ UNCHANGED <<shared, em, hist, holds>>

SetMsgColorsCheck(t) ==
  NullCheck(t, "set_logger_msg_colors",
            "Cannot assign display color information from NULL pointer!")

\* Mutant: the two fields of the assigned colors are stored crosswise.
SetMsgColorsCopy_Crossed(t) ==
  /\ At(t, "set_logger_msg_colors", "body")
  /\ logger_color_pallet' =
       [logger_color_pallet EXCEPT !.message_colors[frame[t].args[2]] =
          [background_color |-> frame[t].args[3].text_color,
           text_color       |-> frame[t].args[3].background_color]]
  /\ Goto(t, "unlock")
  /\ UNCHANGED <<time_fmt, log_file, logger_recursive_mutex, locks, streams,
                 files, terminal, frame, em, hist, calls, holds>>

SetMsgColorsCopy(t) ==
  /\ At(t, "set_logger_msg_colors", "body")
  /\ logger_color_pallet' =
       [logger_color_pallet EXCEPT !.message_colors[frame[t].args[2]] =
          copy_display_colors(frame[t].args[3])]
  /\ Goto(t, "unlock")
  /\ UNCHANGED <<time_fmt, log_file, logger_recursive_mutex, locks, streams,
                 files, terminal, frame, em, hist, calls, holds>>

(***************************************************************************)
(* set_logger_tag_colors(category, assigned_colors)                        *)
(***************************************************************************)
SetTagColorsCall(t, valid, category, assigned_colors) ==
  /\ Call(t, "set_logger_tag_colors", <<valid, category, assigned_colors>>,
          "check")
  /\ UNCHANGED <<shared, em, hist, holds>>

SetTagColorsCheck(t) ==
  NullCheck(t, "set_logger_tag_colors",
            "Cannot assign display color information from NULL pointer!")

\* Mutant: the colours are stored for the tag and for the message of the
\* same index.
SetTagColorsCopy_Both(t) ==
  /\ At(t, "set_logger_tag_colors", "body")
  /\ logger_color_pallet' =
       [logger_color_pallet EXCEPT
          !.tag_colors[frame[t].args[2]] =
             copy_display_colors(frame[t].args[3]),
          !.message_colors["INFO_MSG"] =
             copy_display_colors(frame[t].args[3])]
  /\ Goto(t, "unlock")
  /\ UNCHANGED <<time_fmt, log_file, logger_recursive_mutex, locks, streams,
                 files, terminal, frame, em, hist, calls, holds>>

SetTagColorsCopy(t) ==
  /\ At(t, "set_logger_tag_colors", "body")
  /\ logger_color_pallet' =
       [logger_color_pallet EXCEPT !.tag_colors[frame[t].args[2]] =
          copy_display_colors(frame[t].args[3])]
  /\ Goto(t, "unlock")
  /\ UNCHANGED <<time_fmt, log_file, logger_recursive_mutex, locks, streams,
                 files, terminal, frame, em, hist, calls, holds>>

(***************************************************************************)
(* reset_logger_colors()                                                   *)
(***************************************************************************)
ResetLoggerColorsCall(t) ==
  /\ Call(t, "reset_logger_colors", <<>>, "lock")
  /\ UNCHANGED <<shared, em, hist, holds>>

\* Mutant: the lock covers the first loop only.
ResetMessageColors_Released(t) ==
  /\ At(t, "reset_logger_colors", "reset_msg")
  /\ logger_color_pallet' =
       [logger_color_pallet EXCEPT
          !.message_colors[MessageCategoryOrder[frame[t].i + 1]] =
             copy_display_colors(default_color_pallet.message_colors[
                                   MessageCategoryOrder[frame[t].i + 1]])]
  /\ IF frame[t].i + 1 < NUM_OF_MESSAGE_CATEGORIES
       THEN frame' = [frame EXCEPT ![t].i = @ + 1] /\ UNCHANGED <<pc, locks>>
       ELSE /\ frame' = [frame EXCEPT ![t].i = 0]
            /\ Goto(t, "reset_tag")
            /\ locks' = AfterUnlock(t)
  /\ UNCHANGED <<time_fmt, log_file, logger_recursive_mutex, streams,
                 files, terminal, em, hist, calls, holds>>

\* for(i = 0; i < NUM_OF_MESSAGE_CATEGORIES; i++): one iteration.
ResetMessageColors(t) ==
  /\ At(t, "reset_logger_colors", "reset_msg")
  /\ logger_color_pallet' =
       [logger_color_pallet EXCEPT
          !.message_colors[MessageCategoryOrder[frame[t].i + 1]] =
             copy_display_colors(default_color_pallet.message_colors[
                                   MessageCategoryOrder[frame[t].i + 1]])]
  /\ IF frame[t].i + 1 < NUM_OF_MESSAGE_CATEGORIES
       THEN frame' = [frame EXCEPT ![t].i = @ + 1] /\ UNCHANGED pc
       ELSE frame' = [frame EXCEPT ![t].i = 0] /\ Goto(t, "reset_tag")
  /\ UNCHANGED <<time_fmt, log_file, logger_recursive_mutex, locks, streams,
                 files, terminal, em, hist, calls, holds>>

\* Mutant: the second loop copies the defaults of the message categories.
ResetTagColors_FromMessages(t) ==
  /\ At(t, "reset_logger_colors", "reset_tag")
  /\ logger_color_pallet' =
       [logger_color_pallet EXCEPT
          !.tag_colors[TagCategoryOrder[frame[t].i + 1]] =
             copy_display_colors(default_color_pallet.message_colors[
                                   MessageCategoryOrder[frame[t].i + 1]])]
  /\ IF frame[t].i + 1 < NUM_OF_TAG_CATEGORIES
       THEN frame' = [frame EXCEPT ![t].i = @ + 1] /\ UNCHANGED pc
       ELSE frame' = [frame EXCEPT ![t].i = 0] /\ Goto(t, "unlock")
  /\ UNCHANGED <<time_fmt, log_file, logger_recursive_mutex, locks, streams,
                 files, terminal, em, hist, calls, holds>>

\* for(i = 0; i < NUM_OF_TAG_CATEGORIES; i++): one iteration.
ResetTagColors(t) ==
  /\ At(t, "reset_logger_colors", "reset_tag")
  /\ logger_color_pallet' =
       [logger_color_pallet EXCEPT
          !.tag_colors[TagCategoryOrder[frame[t].i + 1]] =
             copy_display_colors(default_color_pallet.tag_colors[
                                   TagCategoryOrder[frame[t].i + 1]])]
  /\ IF frame[t].i + 1 < NUM_OF_TAG_CATEGORIES
       THEN frame' = [frame EXCEPT ![t].i = @ + 1] /\ UNCHANGED pc
       ELSE frame' = [frame EXCEPT ![t].i = 0] /\ Goto(t, "unlock")
  /\ UNCHANGED <<time_fmt, log_file, logger_recursive_mutex, locks, streams,
                 files, terminal, em, hist, calls, holds>>

(***************************************************************************)
(* get_time_format(destination), set_time_format(new_format)               *)
(***************************************************************************)
GetTimeFormatCall(t, valid) ==
  /\ Call(t, "get_time_format", <<valid>>, "check")
  /\ UNCHANGED <<shared, em, hist, holds>>

GetTimeFormatCheck(t) ==
  NullCheck(t, "get_time_format", "Cannot store time format in NULL pointer!")

\* strncpy(destination->string_representation, time_fmt, TIME_FMT_SIZE)
GetTimeFormatCopy(t) ==
  /\ At(t, "get_time_format", "body")
  /\ frame' = [frame EXCEPT ![t].out = strncpy(CharsOf(time_fmt),
                                                TIME_FMT_SIZE)]
  /\ Goto(t, "unlock")
  /\ UNCHANGED <<shared, em, hist, calls, holds>>

SetTimeFormatCall(t, valid, new_format) ==
  /\ Call(t, "set_time_format", <<valid, new_format>>, "check")
  /\ UNCHANGED <<shared, em, hist, holds>>

\* Mutant: the limit the error message announces ("less then 50").
FormatAccepted_Less(new_format) == strlen(new_format) < TIME_FMT_SIZE

\* The format is accepted when strlen(new_format) > TIME_FMT_SIZE is false.
FormatAccepted(new_format) == ~(strlen(new_format) > TIME_FMT_SIZE)

SetTimeFormatCheck(t) ==
  /\ At(t, "set_time_format", "check")
  /\ IF ~frame[t].args[1]
       THEN Report(t, "error",
                   <<"Cannot assign time format from a NULL pointer!",
                     " Please use a valid reference.", "\n">>, <<>>, "fail")
       ELSE IF ~FormatAccepted(frame[t].args[2])
         THEN Report(t, "error",
                     <<"Could not change time format! Try again with an argument of less then ",
                       "%u", " characters.", "\n">>,
                     <<TIME_FMT_SIZE>>, "fail")
         ELSE Goto(t, "lock") /\ UNCHANGED <<em, calls>>
  /\ UNCHANGED <<shared, frame, hist, holds>>

\* strncpy(time_fmt, new_format, TIME_FMT_SIZE)
SetTimeFormatCopy(t) ==
  /\ At(t, "set_time_format", "body")
  /\ time_fmt' = strncpy(frame[t].args[2], TIME_FMT_SIZE)
  /\ Goto(t, "unlock")
  /\ UNCHANGED <<log_file, logger_color_pallet, logger_recursive_mutex, locks,
                 streams, files, terminal, frame, em, hist, calls, holds>>

(***************************************************************************)
(* configure_log_file(file_name, file_mode)                                *)
(***************************************************************************)
ConfigureLogFileCall(t, file_name, file_mode) ==
  /\ Call(t, "configure_log_file", <<file_name, file_mode>>, "lock")
  /\ UNCHANGED <<shared, em, hist, holds>>

\* If there was a previous log file, we need to close it.
\* Mutant: the handle of the previous log file is cleared, the file is not
\* closed.
ConfigureClose_NotClosed(t) ==
  /\ At(t, "configure_log_file", "close")
  /\ log_file' = 0
  /\ Goto(t, "open")
  /\ UNCHANGED <<time_fmt, logger_color_pallet, logger_recursive_mutex, locks,
                 streams, files, terminal, frame, em, hist, calls, holds>>

ConfigureClose(t) ==
  /\ At(t, "configure_log_file", "close")
  /\ IF log_file # 0
       THEN streams' = fclose(log_file) /\ log_file' = 0
       ELSE UNCHANGED <<streams, log_file>>
  /\ Goto(t, "open")
  /\ UNCHANGED <<time_fmt, logger_color_pallet, logger_recursive_mutex, locks,
                 files, terminal, frame, em, hist, calls, holds>>

\* switch(file_mode): log_file = fopen(file_name, "a") or "w".  fopen()
\* fails (returns NULL) when the system refuses the file.
ConfigureOpen(t) ==
  /\ At(t, "configure_log_file", "open")
  /\ \E opened \in BOOLEAN :
       IF opened
         THEN /\ files' = fopen_files(frame[t].args[1],
                            IF frame[t].args[2] = "APPEND" THEN "a" ELSE "w")
              /\ streams' = fopen_streams(frame[t].args[1])
              /\ log_file' = Len(streams) + 1
              /\ Goto(t, "release")
              /\ UNCHANGED <<em, calls>>
         ELSE /\ log_file' = 0
              /\ UNCHANGED <<files, streams>>
              /\ IF frame[t].args[2] = "APPEND"
                   THEN Report(t, "warning",
                          <<"Could not find log file! Defaulting to write mode!",
                            "\n">>, <<>>, "reopen")
                   ELSE Goto(t, "release") /\ UNCHANGED <<em, calls>>
  /\ UNCHANGED <<time_fmt, logger_color_pallet, logger_recursive_mutex, locks,
                 terminal, frame, hist, holds>>

\* APPEND, after the warning: log_file = fopen(file_name, "w").
ConfigureReopen(t) ==
  /\ At(t, "configure_log_file", "reopen")
  /\ \E opened \in BOOLEAN :
       IF opened
         THEN /\ files' = fopen_files(frame[t].args[1], "w")
              /\ streams' = fopen_streams(frame[t].args[1])
              /\ log_file' = Len(streams) + 1
         ELSE /\ log_file' = 0
              /\ UNCHANGED <<files, streams>>
  /\ Goto(t, "release")
  /\ UNCHANGED <<time_fmt, logger_color_pallet, logger_recursive_mutex, locks,
                 terminal, frame, em, hist, calls, holds>>

\* Release logger recursive lock if thread safety is enabled.
ConfigureRelease(t) ==
  /\ At(t, "configure_log_file", "release")
  /\ locks' = AfterUnlock(t)
  /\ Goto(t, "result")
  /\ UNCHANGED <<time_fmt, log_file, logger_color_pallet,
                 logger_recursive_mutex, streams, files, terminal, frame, em,
                 hist, calls, holds>>

\* Mutant: the failure is returned without the error message.
ConfigureResult_Silent(t) ==
  /\ At(t, "configure_log_file", "result")
  /\ Return(t, IF log_file = 0 THEN -1 ELSE 0, <<>>)
  /\ UNCHANGED <<shared, em, calls, holds>>

\* if(log_file == NULL) { error(...); return -1; } return 0;
ConfigureResult(t) ==
  /\ At(t, "configure_log_file", "result")
  /\ IF log_file = 0
       THEN /\ Report(t, "error",
                   <<"Could not create log file! Please check your system.",
                     "\n">>, <<>>, "fail")
            /\ UNCHANGED <<frame, hist>>
       ELSE /\ Return(t, 0, <<>>)
            /\ UNCHANGED <<em, calls>>
  /\ UNCHANGED <<shared, holds>>

(***************************************************************************)
(* enable_thread_safety()                                                  *)
(***************************************************************************)
EnableThreadSafetyCall(t) ==
  /\ Len(locks) < MaxLocks
  /\ Call(t, "enable_thread_safety", <<>>, "alloc")
  /\ UNCHANGED <<shared, em, hist, holds>>

\* Mutant: a mutex that exists already is destroyed and freed before the
\* handle is overwritten.
EnableAllocate_Frees(t) ==
  /\ At(t, "enable_thread_safety", "alloc")
  /\ \E allocated \in BOOLEAN :
       IF allocated
         THEN /\ locks' = Append(
                   IF logger_recursive_mutex # 0
                     THEN [locks EXCEPT
                             ![logger_recursive_mutex].state = "freed"]
                     ELSE locks,
                   NewLock)
              /\ logger_recursive_mutex' = Len(locks) + 1
              /\ Return(t, 0, <<>>)
              /\ UNCHANGED <<em, calls>>
         ELSE /\ logger_recursive_mutex' = 0
              /\ Report(t, "error",
                   <<"Could not allocate memory for mutex lock! Please check your system.">>,
                   <<>>, "fail")
              /\ UNCHANGED <<locks, frame, hist>>
  /\ UNCHANGED <<time_fmt, log_file, logger_color_pallet, streams, files,
                 terminal, holds>>

\* logger_recursive_mutex = malloc(...): the handle is overwritten, also by
\* NULL when malloc() fails; a new mutex is initialised as recursive.
EnableAllocate(t) ==
  /\ At(t, "enable_thread_safety", "alloc")
  /\ \E allocated \in BOOLEAN :
       IF allocated
         THEN /\ locks' = Append(locks, NewLock)
              /\ logger_recursive_mutex' = Len(locks) + 1
              /\ Return(t, 0, <<>>)
              /\ UNCHANGED <<em, calls>>
         ELSE /\ logger_recursive_mutex' = 0
              /\ Report(t, "error",
                   <<"Could not allocate memory for mutex lock! Please check your system.">>,
                   <<>>, "fail")
              /\ UNCHANGED <<locks, frame, hist>>
  /\ UNCHANGED <<time_fmt, log_file, logger_color_pallet, streams, files,
                 terminal, holds>>

(***************************************************************************)
(* logger_module_clean_up()                                                *)
(***************************************************************************)
CleanUpCall(t) ==
  /\ Call(t, "logger_module_clean_up", <<>>, "clean_file")
  /\ UNCHANGED <<shared, em, hist, holds>>

\* Mutant: the log file is closed and its handle is kept.
CleanUpFile_Dangling(t) ==
  /\ At(t, "logger_module_clean_up", "clean_file")
  /\ IF log_file # 0
       THEN streams' = fclose(log_file)
       ELSE UNCHANGED streams
  /\ Goto(t, "clean_mutex")
  /\ UNCHANGED <<time_fmt, log_file, logger_color_pallet,
                 logger_recursive_mutex, locks, files, terminal, frame, em,
                 hist, calls, holds>>

\* Clean up the log file.
CleanUpFile(t) ==
  /\ At(t, "logger_module_clean_up", "clean_file")
  /\ IF log_file # 0
       THEN streams' = fclose(log_file) /\ log_file' = 0
       ELSE UNCHANGED <<streams, log_file>>
  /\ Goto(t, "clean_mutex")
  /\ UNCHANGED <<time_fmt, logger_color_pallet, logger_recursive_mutex, locks,
                 files, terminal, frame, em, hist, calls, holds>>

\* Mutant: the mutex is destroyed and freed and its handle is kept.
CleanUpMutex_Dangling(t) ==
  /\ At(t, "logger_module_clean_up", "clean_mutex")
  /\ IF logger_recursive_mutex # 0
       THEN locks' = [locks EXCEPT ![logger_recursive_mutex].state = "freed"]
       ELSE UNCHANGED locks
  /\ Return(t, 0, <<>>)
  /\ UNCHANGED <<time_fmt, log_file, logger_color_pallet,
                 logger_recursive_mutex, streams, files, terminal, em, calls,
                 holds>>

\* Clean up the recursive mutex: destroy, free, NULL.
CleanUpMutex(t) ==
  /\ At(t, "logger_module_clean_up", "clean_mutex")
  /\ IF logger_recursive_mutex # 0
       THEN /\ locks' = [locks EXCEPT ![logger_recursive_mutex].state = "freed"]
            /\ logger_recursive_mutex' = 0
       ELSE UNCHANGED <<locks, logger_recursive_mutex>>
  /\ Return(t, 0, <<>>)
  /\ UNCHANGED <<time_fmt, log_file, logger_color_pallet, streams, files,
                 terminal, em, calls, holds>>

(***************************************************************************)
(* lock_logger_recursive_mutex(), unlock_logger_recursive_mutex()          *)
(***************************************************************************)
LockMutexCall(t) ==
  /\ Call(t, "lock_logger_recursive_mutex", <<>>, "user_lock")
  /\ UNCHANGED <<shared, em, hist, holds>>

LockMutex(t) ==
  /\ At(t, "lock_logger_recursive_mutex", "user_lock")
  /\ IF logger_recursive_mutex # 0
       THEN /\ CanLock(t)
            /\ locks' = AfterLock(t)
            /\ holds' = [holds EXCEPT ![t] = @ + 1]
            /\ Return(t, 0, <<>>)
            /\ UNCHANGED <<em, calls>>
       ELSE /\ Report(t, "warning",
                 <<"Enable thread safety to access the logger recursive mutex.">>,
                 <<>>, "return")
            /\ UNCHANGED <<locks, holds, frame, hist>>
  /\ UNCHANGED <<time_fmt, log_file, logger_color_pallet,
                 logger_recursive_mutex, streams, files, terminal>>

UnlockMutexCall(t) ==
  /\ Call(t, "unlock_logger_recursive_mutex", <<>>, "user_unlock")
  /\ UNCHANGED <<shared, em, hist, holds>>

\* Mutant: without thread safety the function returns without a warning.
UnlockMutex_Silent(t) ==
  /\ At(t, "unlock_logger_recursive_mutex", "user_unlock")
  /\ locks' = AfterUnlock(t)
  /\ holds' = [holds EXCEPT ![t] = IF HoldsGuard(t) /\ @ > 0 THEN @ - 1 ELSE @]
  /\ Return(t, 0, <<>>)
  /\ UNCHANGED <<time_fmt, log_file, logger_color_pallet,
                 logger_recursive_mutex, streams, files, terminal, em, calls>>

UnlockMutex(t) ==
  /\ At(t, "unlock_logger_recursive_mutex", "user_unlock")
  /\ IF logger_recursive_mutex # 0
       THEN /\ locks' = AfterUnlock(t)
            /\ holds' = [holds EXCEPT ![t] =
                           IF HoldsGuard(t) /\ @ > 0 THEN @ - 1 ELSE @]
            /\ Return(t, 0, <<>>)
            /\ UNCHANGED <<em, calls>>
       ELSE /\ Report(t, "warning",
                 <<"Enable thread safety to access the logger recursive mutex.">>,
                 <<>>, "return")
            /\ UNCHANGED <<locks, holds, frame, hist>>
  /\ UNCHANGED <<time_fmt, log_file, logger_color_pallet,
                 logger_recursive_mutex, streams, files, terminal>>

(***************************************************************************)
(* color_text(), color_background(), reset_colors() called by the user.    *)
(***************************************************************************)
ColorTextCall(t, p_color) ==
  /\ Call(t, "color_text", <<p_color>>, "body")
  /\ UNCHANGED <<shared, em, hist, holds>>

ColorText(t) ==
  /\ At(t, "color_text", "body")
  /\ color_text(t, frame[t].id, frame[t].args[1])
  /\ Return(t, 0, <<>>)
  /\ UNCHANGED <<time_fmt, log_file, logger_color_pallet,
                 logger_recursive_mutex, locks, streams, files, em, calls,
                 holds>>

ColorBackgroundCall(t, p_color) ==
  /\ Call(t, "color_background", <<p_color>>, "body")
  /\ UNCHANGED <<shared, em, hist, holds>>

ColorBackground(t) ==
  /\ At(t, "color_background", "body")
  /\ color_background(t, frame[t].id, frame[t].args[1])
  /\ Return(t, 0, <<>>)
  /\ UNCHANGED <<time_fmt, log_file, logger_color_pallet,
                 logger_recursive_mutex, locks, streams, files, em, calls,
                 holds>>

ResetColorsCall(t) ==
  /\ Call(t, "reset_colors", <<>>, "body")
  /\ UNCHANGED <<shared, em, hist, holds>>

ResetColors(t) ==
  /\ At(t, "reset_colors", "body")
  /\ reset_colors(t, frame[t].id)
  /\ Return(t, 0, <<>>)
  /\ UNCHANGED <<time_fmt, log_file, logger_color_pallet,
                 logger_recursive_mutex, locks, streams, files, em, calls,
                 holds>>

(***************************************************************************)
(* Inputs of the calls.                                                    *)
(***************************************************************************)
\* The colours sample.c assigns (custom_context_tag_colors and
\* custom_info_msg_colors).
InputColors == {DisplayColors("B_GRN", "B_WHT"), DisplayColors("B_WHT", "CYN")}

Fill(n) == [i \in 1..n |-> "x"]

\* Time formats: "%c" of the documentation, and formats at the size limit.
InputFormats ==
  {<<"%", "c">>, Fill(TIME_FMT_SIZE - 1), Fill(TIME_FMT_SIZE),
   Fill(TIME_FMT_SIZE + 1)}

\* thread_example(): context "Thread <id>", format "Message number %d!\n".
ThreadContext(t) == IF t = 1 THEN "Thread 1" ELSE "Thread 2"

InputFormat == <<"Message number ", "%d", "!", "\n">>

InputArgs == <<1>>

(***************************************************************************)
(* Use of the module.  Without thread safety the module is for one thread  *)
(* at a time; enable_thread_safety() and logger_module_clean_up() are      *)
(* called while no other thread is inside the module (sample.c: before the *)
(* threads are created, after they are joined).                            *)
(***************************************************************************)
OthersIdle(t) == \A u \in Threads \ {t} : pc[u] = "idle"

\* Thread u is inside enable_thread_safety() or logger_module_clean_up().
InLifecycle(u) ==
  /\ pc[u] # "idle"
  /\ frame[u].op \in {"enable_thread_safety", "logger_module_clean_up"}

MayCall(t) ==
  \/ OthersIdle(t)
  \/ /\ logger_recursive_mutex # 0
     /\ \A u \in Threads \ {t} : ~InLifecycle(u)

Budget(n) == calls < n

(***************************************************************************)
(* SpecEmit: the threads of sample.c emit messages.  main() has called     *)
(* configure_log_file("a.log", WRITE) and enable_thread_safety() before it *)
(* creates the threads, and calls logger_module_clean_up() only after it   *)
(* joined them.                                                            *)
(***************************************************************************)
InitThreadSafe ==
  /\ time_fmt = strncpy(DefaultTimeFormat, TIME_FMT_SIZE)
  /\ logger_color_pallet = default_color_pallet
  /\ logger_recursive_mutex = 1
  /\ locks = <<NewLock>>
  /\ terminal = <<>>
  /\ pc = [t \in Threads |-> "idle"]
  /\ frame = [t \in Threads |-> NoFrame]
  /\ em = [t \in Threads |-> NoEm]
  /\ hist = <<>>
  /\ calls = 0
  /\ holds = [t \in Threads |-> 0]

NoLogFile ==
  /\ log_file = 0
  /\ streams = <<>>
  /\ files = [p \in {"a.log", "b.log"} |-> Absent]

LogFileOpen ==
  /\ log_file = 1
  /\ streams = <<[path |-> "a.log", open |-> TRUE]>>
  /\ files = [p \in {"a.log", "b.log"} |->
                IF p = "a.log" THEN [exists |-> TRUE, content |-> <<>>]
                ELSE Absent]

InitEmit == InitThreadSafe /\ LogFileOpen

\* thread_example(): message(), error(), ...; the context is optional.
EmitCalls(t) ==
  \/ Emit(t, "message", NullContext, InputFormat, InputArgs)
  \/ Emit(t, "error", ThreadContext(t), InputFormat, InputArgs)

NextEmit ==
  \E t \in Threads :
    \/ Budget(MaxEmitCalls) /\ EmitCalls(t)
    \/ TerminalStep(t)
    \/ LogStep(t)

SpecEmit == InitEmit /\ [][NextEmit]_vars

\* The items of one call are next to each other in a sequence of items: an
\* item of a call that follows an earlier item of the call is preceded by an
\* item of the call, so that no item of another call lies between the two.
Contiguous(items) ==
  \A i, j \in DOMAIN items :
    (i < j /\ items[i].call = items[j].call)
      => items[j - 1].call = items[i].call

\* C1: with thread safety enabled, the terminal writes of one emitter call
\* (context, tag, body, style reset) are contiguous: no terminal write of
\* another thread's emitter call occurs between the first and the last one.
C1_TerminalContiguous == Contiguous(terminal)

\* A thread is in the middle of its terminal writes while the other thread,
\* which wrote a message before, has called an emitter and waits for the lock.
C1_Witness ==
  \E t, u \in Threads :
    /\ t # u
    /\ EmAt(t, "msg_print")
    /\ EmAt(u, "lock")
    /\ \E i \in DOMAIN terminal : terminal[i].t = u

\* C2: with thread safety enabled and a log file configured, each record of
\* the log file (timestamp, context, tag, body) is written contiguously by one
\* call: no file write of another thread's call lies inside it.
C2_RecordsContiguous ==
  \A p \in Paths : Contiguous(files[p].content)

\* A thread has written the timestamp of its record and not yet the body,
\* while the other thread has called an emitter and waits for the lock.
C2_Witness ==
  \E t, u \in Threads :
    /\ t # u
    /\ EmAt(t, "log_text")
    /\ EmAt(u, "lock")
    /\ \E p \in Paths : files[p].content # <<>>

\* The position of the body of call c in a sequence of items, 0 when the
\* sequence holds no body of the call.
BodyAt(items, c) ==
  IF \E k \in DOMAIN items : items[k].call = c /\ items[k].part = "body"
    THEN CHOOSE k \in DOMAIN items :
           items[k].call = c /\ items[k].part = "body"
    ELSE 0

\* C25: with thread safety enabled and a log file configured throughout,
\* the records of the log file are in the order in which their messages
\* appear on the terminal, however the emitter calls of the threads
\* interleave: every returned call has its message in both, and two calls
\* are in the same order in both.
C25_SameOrderInBothSinks ==
  \A i, j \in DOMAIN hist :
    LET c == hist[i].id
        d == hist[j].id
        content == files["a.log"].content
    IN /\ BodyAt(terminal, c) # 0
       /\ BodyAt(content, c) # 0
       /\ BodyAt(terminal, c) < BodyAt(terminal, d)
            <=> BodyAt(content, c) < BodyAt(content, d)

\* The threads called emitters at the same time: the call made first
\* returned last, and the records of both are in the log file.
C25_Witness ==
  \E i, j \in DOMAIN hist :
    /\ i < j
    /\ hist[i].t # hist[j].t
    /\ hist[i].id > hist[j].id
    /\ BodyAt(files["a.log"].content, hist[i].id) # 0
    /\ BodyAt(files["a.log"].content, hist[j].id) # 0

(***************************************************************************)
(* SpecLock: threads that bracket their own code with                      *)
(* lock_logger_recursive_mutex() / unlock_logger_recursive_mutex(), as     *)
(* thread_example() does, and call the logger inside and outside of the    *)
(* brackets.  Thread safety was enabled before the threads started.        *)
(***************************************************************************)
InitLock == InitThreadSafe /\ NoLogFile

MutexStep(t) ==
  \/ LockMutex(t)
  \/ UnlockMutex(t)

NextLock ==
  \E t \in Threads :
    \/ Budget(MaxLockCalls) /\ LockMutexCall(t)
    \/ Budget(MaxLockCalls) /\ UnlockMutexCall(t)
    \/ Budget(MaxLockCalls) /\ Emit(t, "error", ThreadContext(t), InputFormat,
                                    InputArgs)
    \/ Budget(MaxLockCalls) /\ ColorTextCall(t, "BLU")
    \/ MutexStep(t)
    \/ TerminalStep(t)
    \/ ColorText(t)

SpecLock == InitLock /\ [][NextLock]_vars

\* The thread is at a statement that acquires the lock.
AtLock(t) ==
  \/ pc[t] \in {"lock", "user_lock"}
  \/ pc[t] = "body" /\ frame[t].op \in {"color_text", "color_background",
                                        "reset_colors"}
  \/ em[t].active /\ em[t].pc \in {"lock", "ctx_text", "ctx_bg", "tag_text",
                                   "tag_bg", "msg_text", "msg_bg", "reset"}

\* The thread is suspended in pthread_mutex_lock().
Suspended(t) == AtLock(t) /\ ~CanLock(t)

\* The thread is between the lock and the unlock of a logger function.
InCritical(t) ==
  \/ pc[t] \in {"body", "unlock", "reset_msg", "reset_tag", "close", "open",
                "reopen", "release"}
       /\ frame[t].op \notin {"color_text", "color_background", "reset_colors"}
  \/ em[t].active /\ em[t].pc # "lock"

\* C3: the guard is reentrant and counted.  A thread that called
\* lock_logger_recursive_mutex() more often than
\* unlock_logger_recursive_mutex() owns the guard, is never suspended by its
\* own logger calls, and meanwhile no other thread is inside the critical
\* section of a logger function: whatever needs the lock there is suspended.
C3_ReentrantCounted ==
  \A t \in Threads :
    holds[t] > 0 =>
      /\ HoldsGuard(t)
      /\ locks[logger_recursive_mutex].count >= holds[t]
      /\ ~Suspended(t)
      /\ \A u \in Threads \ {t} :
           /\ ~InCritical(u)
           /\ AtLock(u) => Suspended(u)

\* A thread locked twice and unlocked once; the other thread has called a
\* logger function and is suspended.
C3_Witness ==
  \E t, u \in Threads :
    /\ t # u
    /\ holds[t] = 1
    /\ \E i \in DOMAIN hist :
         hist[i].t = t /\ hist[i].op = "unlock_logger_recursive_mutex"
    /\ Suspended(u)

(***************************************************************************)
(* SpecReset: threads that read and reset the colour pallet.  main() has   *)
(* assigned the colours of sample.c (context tag, info message, info tag)  *)
(* and enabled thread safety before the threads started.                   *)
(***************************************************************************)
SamplePallet ==
  [message_colors |->
     [DEFAULT_LOGGER_MESSAGE_COLORS EXCEPT
        !["INFO_MSG"] = DisplayColors("B_WHT", "CYN")],
   tag_colors |->
     [DEFAULT_LOGGER_TAG_COLORS EXCEPT
        !["CONTEXT_TAG"] = DisplayColors("B_GRN", "B_WHT"),
        !["INFO_TAG"] = DisplayColors("B_BLA", "CYN")]]

InitReset ==
  /\ time_fmt = strncpy(DefaultTimeFormat, TIME_FMT_SIZE)
  /\ logger_color_pallet = SamplePallet
  /\ logger_recursive_mutex = 1
  /\ locks = <<NewLock>>
  /\ terminal = <<>>
  /\ pc = [t \in Threads |-> "idle"]
  /\ frame = [t \in Threads |-> NoFrame]
  /\ em = [t \in Threads |-> NoEm]
  /\ hist = <<>>
  /\ calls = 0
  /\ holds = [t \in Threads |-> 0]
  /\ NoLogFile

NextReset ==
  \E t \in Threads :
    \/ Budget(MaxResetCalls) /\ ResetLoggerColorsCall(t)
    \/ Budget(MaxResetCalls) /\ GetMsgColorsCall(t, TRUE, "INFO_MSG")
    \/ Budget(MaxResetCalls) /\ GetTagColorsCall(t, TRUE, "INFO_TAG")
    \/ Budget(MaxResetCalls) /\ Emit(t, "info", ThreadContext(t), InputFormat,
                                     InputArgs)
    \/ ResetMessageColors(t)
    \/ ResetTagColors(t)
    \/ GetMsgColorsCheck(t)
    \/ GetMsgColorsCopy(t)
    \/ GetTagColorsCheck(t)
    \/ GetTagColorsCopy(t)
    \/ TerminalStep(t)
    \/ AcquireLock(t)
    \/ ReleaseLock(t)

SpecReset == InitReset /\ [][NextReset]_vars

\* reset_logger_colors() has restored some categories and not yet all.
ResetInProgress(t) ==
  /\ frame[t].op = "reset_logger_colors"
  /\ \/ pc[t] = "reset_msg" /\ frame[t].i > 0
     \/ pc[t] = "reset_tag"

\* The next step of the thread reads the colour pallet.
ReadsPallet(t) ==
  \/ pc[t] = "body" /\ frame[t].op \in {"get_logger_msg_colors",
                                        "get_logger_tag_colors"}
  \/ em[t].active /\ em[t].pc \in {"ctx_text", "ctx_bg", "tag_text", "tag_bg",
                                   "msg_text", "msg_bg"}

\* C5: with thread safety enabled, reset_logger_colors() is atomic for the
\* other threads: while a reset has restored some categories and not yet the
\* others, no getter and no emitter of another thread reads the pallet.
C5_ResetAtomic ==
  \A t \in Threads :
    ResetInProgress(t) => \A u \in Threads \ {t} : ~ReadsPallet(u)

\* A reset has restored the message colours and not yet the tag colours,
\* while the other thread has called a getter and waits for the lock.
C5_Witness ==
  \E t, u \in Threads :
    /\ t # u
    /\ ResetInProgress(t)
    /\ logger_color_pallet.message_colors = DEFAULT_LOGGER_MESSAGE_COLORS
    /\ logger_color_pallet.tag_colors # DEFAULT_LOGGER_TAG_COLORS
    /\ pc[u] = "lock"
    /\ frame[u].op = "get_logger_tag_colors"

(***************************************************************************)
(* SpecWrite: the functions that write the pallet, the time format and the *)
(* log file handle, and the life cycle of the module.  The behaviours      *)
(* start where SpecEmit starts.                                            *)
(***************************************************************************)
ConfigureStep(t) ==
  \/ ConfigureClose(t)
  \/ ConfigureOpen(t)
  \/ ConfigureReopen(t)
  \/ ConfigureRelease(t)
  \/ ConfigureResult(t)

LifecycleStep(t) ==
  \/ EnableAllocate(t)
  \/ CleanUpFile(t)
  \/ CleanUpMutex(t)

NextWrite ==
  \E t \in Threads :
    \/ Budget(MaxWriteCalls) /\ MayCall(t)
         /\ SetMsgColorsCall(t, TRUE, "INFO_MSG", DisplayColors("B_WHT", "CYN"))
    \/ Budget(MaxWriteCalls) /\ MayCall(t) /\ ResetLoggerColorsCall(t)
    \/ Budget(MaxWriteCalls) /\ MayCall(t)
         /\ SetTimeFormatCall(t, TRUE, <<"%", "c">>)
    \/ Budget(MaxWriteCalls) /\ MayCall(t)
         /\ \E file_mode \in LogFileMode :
              ConfigureLogFileCall(t, "a.log", file_mode)
    \/ Budget(MaxWriteCalls) /\ OthersIdle(t) /\ CleanUpCall(t)
    \/ Budget(MaxWriteCalls) /\ OthersIdle(t) /\ EnableThreadSafetyCall(t)
    \/ SetMsgColorsCheck(t)
    \/ SetMsgColorsCopy(t)
    \/ ResetMessageColors(t)
    \/ ResetTagColors(t)
    \/ SetTimeFormatCheck(t)
    \/ SetTimeFormatCopy(t)
    \/ ConfigureStep(t)
    \/ LifecycleStep(t)
    \/ TerminalStep(t)
    \/ LogStep(t)
    \/ AcquireLock(t)
    \/ ReleaseLock(t)
    \/ ReturnError(t)

SpecWrite == InitEmit /\ [][NextWrite]_vars

\* The step writes the pallet, the time format or the log file handle.
WritesStore ==
  \/ logger_color_pallet' # logger_color_pallet
  \/ time_fmt' # time_fmt
  \/ log_file' # log_file

\* The step is a step of thread t.
StepOf(t) == pc'[t] # pc[t] \/ frame'[t] # frame[t] \/ em'[t] # em[t]

\* C4 as stated: when thread safety is enabled, every write to the pallet,
\* the time format and the log file handle by any public function,
\* logger_module_clean_up() included, is made by a thread that holds the guard.
C4_WritesUnderGuard ==
  [][(logger_recursive_mutex # 0 /\ WritesStore)
       => \E t \in Threads : StepOf(t) /\ HoldsGuard(t)]_vars

\* C4 as amended: the same for every public function other than
\* logger_module_clean_up(), which closes and clears the log file handle
\* without acquiring the guard.
C4_WritesUnderGuardButCleanUp ==
  [][(logger_recursive_mutex # 0 /\ WritesStore)
       => \E t \in Threads :
            /\ StepOf(t)
            /\ HoldsGuard(t) \/ frame[t].op = "logger_module_clean_up"]_vars

\* configure_log_file() has closed the previous log file and opened the new
\* one, and still holds the guard.
C4_Witness ==
  \E t \in Threads :
    /\ At(t, "configure_log_file", "release")
    /\ HoldsGuard(t)
    /\ Len(streams) >= 2
    /\ log_file = Len(streams)

(***************************************************************************)
(* SpecColors: main() of sample.c customises, reads and resets the pallet  *)
(* (lines 94-131).  The behaviours start with the colors of the sample set *)
(* and thread safety enabled; the calls are those of the main thread, one  *)
(* after the other.                                                        *)
(***************************************************************************)
MainThread == 1

ColorCalls(t) ==
  \/ \E category \in MessageCategory, assigned_colors \in InputColors :
       SetMsgColorsCall(t, TRUE, category, assigned_colors)
  \/ \E category \in TagCategory, assigned_colors \in InputColors :
       SetTagColorsCall(t, TRUE, category, assigned_colors)
  \/ \E category \in MessageCategory : GetMsgColorsCall(t, TRUE, category)
  \/ \E category \in TagCategory : GetTagColorsCall(t, TRUE, category)
  \/ ResetLoggerColorsCall(t)

ColorStep(t) ==
  \/ SetMsgColorsCheck(t)
  \/ SetMsgColorsCopy(t)
  \/ SetTagColorsCheck(t)
  \/ SetTagColorsCopy(t)
  \/ GetMsgColorsCheck(t)
  \/ GetMsgColorsCopy(t)
  \/ GetTagColorsCheck(t)
  \/ GetTagColorsCopy(t)
  \/ ResetMessageColors(t)
  \/ ResetTagColors(t)

NextColors ==
  \E t \in {MainThread} :
    \/ Budget(MaxColorCalls) /\ ColorCalls(t)
    \/ ColorStep(t)
    \/ AcquireLock(t)
    \/ ReleaseLock(t)

SpecColors == InitReset /\ [][NextColors]_vars

IsSet(h) == h.op \in {"set_logger_msg_colors", "set_logger_tag_colors"}

IsGet(h) == h.op \in {"get_logger_msg_colors", "get_logger_tag_colors"}

IsReset(h) == h.op = "reset_logger_colors"

\* The getter that reads what setter h writes.
GetterOf(h) ==
  IF h.op = "set_logger_msg_colors" THEN "get_logger_msg_colors"
  ELSE "get_logger_tag_colors"

\* hist[i] is a set of a category, hist[j] a later get of the same category,
\* and no call between them is a set or a reset.
SetThenGet(i, j) ==
  /\ i < j
  /\ IsSet(hist[i])
  /\ hist[j].op = GetterOf(hist[i])
  /\ hist[j].args[2] = hist[i].args[2]
  /\ \A k \in (i + 1)..(j - 1) : ~IsSet(hist[k]) /\ ~IsReset(hist[k])

\* C6: a set of the colors of a message (tag) category followed by a get of
\* the same category, with no set or reset between them: both return 0 and
\* the get yields the text and background color that were set.
C6_ColorRoundTrip ==
  \A i, j \in DOMAIN hist :
    SetThenGet(i, j) =>
      /\ hist[i].ret = 0
      /\ hist[j].ret = 0
      /\ hist[j].out.text_color = hist[i].args[3].text_color
      /\ hist[j].out.background_color = hist[i].args[3].background_color

\* A tag category was set, another call was made, and the get of the tag
\* category returned the colors that were set.
C6_Witness ==
  /\ Len(hist) = 3
  /\ SetThenGet(1, 3)
  /\ hist[1].op = "set_logger_tag_colors"
  /\ hist[1].args[3] = DisplayColors("B_WHT", "CYN")
  /\ hist[3].out = DisplayColors("B_WHT", "CYN")

\* The defaults as the documentation lists them.
BuiltInDefault(h) ==
  IF h.op = "get_logger_msg_colors"
    THEN DisplayColors("DFLT", "DFLT")
    ELSE DisplayColors(
           CASE h.args[2] = "CONTEXT_TAG" -> "B_WHT"
             [] h.args[2] = "ERROR_TAG"   -> "B_RED"
             [] h.args[2] = "INFO_TAG"    -> "B_BLU"
             [] h.args[2] = "SUCCESS_TAG" -> "B_GRN"
             [] h.args[2] = "WARNING_TAG" -> "B_YEL",
           "DFLT")

\* hist[i] is a reset, hist[j] a later get, and no call between them is a set.
ResetThenGet(i, j) ==
  /\ i < j
  /\ IsReset(hist[i])
  /\ IsGet(hist[j])
  /\ \A k \in (i + 1)..(j - 1) : ~IsSet(hist[k])

\* C10: every get made after a reset and before the next set returns the
\* built-in default of its category, whatever was set before the reset; and
\* when the last two calls were resets the pallet is the one a single reset
\* leaves, the default pallet.
C10_ResetDefaults ==
  /\ \A i, j \in DOMAIN hist :
       ResetThenGet(i, j) =>
         hist[j].ret = 0 /\ hist[j].out = BuiltInDefault(hist[j])
  /\ \A i \in DOMAIN hist :
       (IsReset(hist[i]) /\ (i = Len(hist) \/ IsReset(hist[i + 1]))
          /\ (i + 1 >= Len(hist)) /\ pc[MainThread] = "idle")
         => logger_color_pallet = default_color_pallet

\* A tag category was set, the pallet was reset, and the get of the category
\* returned its default.
C10_Witness ==
  /\ Len(hist) = 3
  /\ hist[1].op = "set_logger_tag_colors"
  /\ hist[1].args[2] = "WARNING_TAG"
  /\ IsReset(hist[2])
  /\ hist[3].op = "get_logger_tag_colors"
  /\ hist[3].args[2] = "WARNING_TAG"
  /\ hist[3].out = DisplayColors("B_YEL", "DFLT")

(***************************************************************************)
(* SpecTime: one thread sets and reads the time format.  Thread safety is  *)
(* not enabled and no log file is open.                                    *)
(***************************************************************************)
TimeFormatCalls(t) ==
  \/ \E new_format \in InputFormats : SetTimeFormatCall(t, TRUE, new_format)
  \/ SetTimeFormatCall(t, FALSE, <<>>)
  \/ \E valid \in BOOLEAN : GetTimeFormatCall(t, valid)

TimeFormatStep(t) ==
  \/ SetTimeFormatCheck(t)
  \/ SetTimeFormatCopy(t)
  \/ GetTimeFormatCheck(t)
  \/ GetTimeFormatCopy(t)

NextTime ==
  \E t \in {MainThread} :
    \/ Budget(MaxTimeCalls) /\ TimeFormatCalls(t)
    \/ TimeFormatStep(t)
    \/ TerminalStep(t)
    \/ AcquireLock(t)
    \/ ReleaseLock(t)
    \/ ReturnError(t)

SpecTime == Init /\ [][NextTime]_vars

\* Call h is set_time_format() with a string (not NULL).
IsSetFormat(h) == h.op = "set_time_format" /\ h.args[1]

\* The error message of call h is on the terminal.
ErrorEmitted(h) ==
  \E k \in DOMAIN terminal :
    /\ terminal[k].call = h.id + 1
    /\ terminal[k].part = "body"
    /\ terminal[k].val =
         <<"Could not change time format! Try again with an argument of less then ",
           TIME_FMT_SIZE, " characters.", "\n">>

\* The string a caller reads from the TimeFormat that get_time_format()
\* filled: one possibility for each content of the memory behind the buffer.
TimeFormatStrings(h) == {StringRead(h.out, tail) : tail \in AdjacentMemory}

\* C7: set_time_format(s) with strlen(s) <= TIME_FMT_SIZE followed by
\* get_time_format() returns a TimeFormat whose string equals s.
C7_TimeFormatRoundTrip ==
  \A i \in DOMAIN hist :
    (/\ i < Len(hist)
     /\ IsSetFormat(hist[i])
     /\ strlen(hist[i].args[2]) <= TIME_FMT_SIZE
     /\ hist[i + 1].op = "get_time_format"
     /\ hist[i + 1].args[1])
      => /\ hist[i + 1].ret = 0
         /\ TimeFormatStrings(hist[i + 1]) = {hist[i].args[2]}

\* A step of set_time_format() called with a string of more than
\* TIME_FMT_SIZE characters.
RejectedStep ==
  \E t \in Threads :
    /\ frame[t].op = "set_time_format"
    /\ frame[t].args[1]
    /\ strlen(frame[t].args[2]) > TIME_FMT_SIZE

\* C8: set_time_format(s), s not NULL, returns 0 if and only if strlen(s) <=
\* TIME_FMT_SIZE; with a longer s it returns -1, emits an error message and
\* none of its steps changes the stored time format.
C8_LengthBoundary ==
  /\ [](\A i \in DOMAIN hist :
          IsSetFormat(hist[i]) =>
            /\ hist[i].ret = 0 <=> strlen(hist[i].args[2]) <= TIME_FMT_SIZE
            /\ strlen(hist[i].args[2]) > TIME_FMT_SIZE =>
                 hist[i].ret = -1 /\ ErrorEmitted(hist[i]))
  /\ [][RejectedStep => time_fmt' = time_fmt]_vars

\* The format was changed to "%c", and a later call with TIME_FMT_SIZE + 1
\* characters was refused with the error message.
C8_Witness ==
  /\ Len(hist) = 2
  /\ IsSetFormat(hist[1]) /\ hist[1].ret = 0
  /\ IsSetFormat(hist[2]) /\ hist[2].ret = -1
  /\ strlen(hist[2].args[2]) = TIME_FMT_SIZE + 1
  /\ ErrorEmitted(hist[2])
  /\ CharsOf(time_fmt) = <<"%", "c">>

\* C9: the stored time format has a terminator within the TIME_FMT_SIZE
\* characters of its buffer, so its length is at most the bound.
C9_Terminated ==
  /\ Len(time_fmt) = TIME_FMT_SIZE
  /\ FirstNul(time_fmt) # 0

(***************************************************************************)
(* SpecFile: single-threaded use of the log file, as in main() of sample.c *)
(* (lines 52-68): configure_log_file(), emitters, logger_module_clean_up(),*)
(* and the lock functions called while thread safety is not enabled.  The  *)
(* file "a.log" is on the disk from an earlier run, "b.log" is not.        *)
(***************************************************************************)
EarlierRun == <<FileItem(NoThread, 0, "body", <<"earlier run", "\n">>)>>

InitFile ==
  /\ time_fmt = strncpy(DefaultTimeFormat, TIME_FMT_SIZE)
  /\ log_file = 0
  /\ logger_color_pallet = default_color_pallet
  /\ logger_recursive_mutex = 0
  /\ locks = <<>>
  /\ streams = <<>>
  /\ files = [p \in {"a.log", "b.log"} |->
                IF p = "a.log" THEN [exists |-> TRUE, content |-> EarlierRun]
                ELSE Absent]
  /\ terminal = <<>>
  /\ pc = [t \in Threads |-> "idle"]
  /\ frame = [t \in Threads |-> NoFrame]
  /\ em = [t \in Threads |-> NoEm]
  /\ hist = <<>>
  /\ calls = 0
  /\ holds = [t \in Threads |-> 0]

FileCalls(t) ==
  \/ ConfigureLogFileCall(t, "a.log", "WRITE")
  \/ ConfigureLogFileCall(t, "b.log", "APPEND")
  \/ CleanUpCall(t)
  \/ EmitCalls(t)
  \/ LockMutexCall(t)
  \/ UnlockMutexCall(t)

NextFile ==
  \E t \in {MainThread} :
    \/ Budget(MaxFileCalls) /\ FileCalls(t)
    \/ AcquireLock(t)
    \/ ConfigureStep(t)
    \/ CleanUpFile(t)
    \/ CleanUpMutex(t)
    \/ MutexStep(t)
    \/ TerminalStep(t)
    \/ LogStep(t)
    \/ ReturnError(t)
    \/ ReturnVoid(t)

SpecFile == InitFile /\ [][NextFile]_vars

\* C11: at most one file opened by the logger is open, and every open file
\* is the one the log file handle refers to: configure_log_file() closes the
\* previous file before it opens the new one.
C11_OneOpenFile ==
  /\ Cardinality({h \in DOMAIN streams : streams[h].open}) <= 1
  /\ \A h \in DOMAIN streams : streams[h].open => log_file = h

\* configure_log_file() was called with a log file open: the first file is
\* closed, the second is open and is the log file.
C11_Witness ==
  /\ Len(streams) = 2
  /\ ~streams[1].open
  /\ streams[2].open
  /\ log_file = 2
  /\ pc[MainThread] = "idle"

\* The ids of the emitter calls that call h made itself (error(), warning()
\* called by a logger function): the ids handed out after h.id and before
\* the next call of the thread.
ReportIds(h) ==
  {c \in (h.id + 1)..calls :
     /\ \A i \in DOMAIN hist : ~(h.id < hist[i].id /\ hist[i].id <= c)
     /\ \A t \in Threads : ~(h.id < frame[t].id /\ frame[t].id <= c)}

\* The terminal shows the tag of emitter kind for call c.
TagOnTerminal(c, kind) ==
  \E k \in DOMAIN terminal :
    /\ terminal[k].call = c
    /\ terminal[k].part = "tag"
    /\ terminal[k].val = msg_type(kind)

\* The terminal shows context ctx for call c.
ContextOnTerminal(c, ctx) ==
  \E k \in DOMAIN terminal :
    /\ terminal[k].call = c
    /\ terminal[k].part = "context"
    /\ terminal[k].val = ctx

\* The terminal shows the body of call c.
BodyOnTerminal(c) ==
  \E k \in DOMAIN terminal : terminal[k].call = c /\ terminal[k].part = "body"

\* Some file holds an item of call c.
InSomeFile(c) ==
  \E p \in Paths : \E k \in DOMAIN files[p].content :
    files[p].content[k].call = c

IsConfigure(h) == h.op = "configure_log_file"

\* C12: a configure_log_file() call whose open fails (in APPEND mode: both
\* opens) returns -1 and emits one error message with context "Logger
\* module" on the terminal; when it has returned no log file is configured
\* and none is open, also when one was configured before, and the emitter
\* calls that follow write to the terminal only.  A call that returns 0
\* leaves an open log file.
C12_OpenFailure ==
  \A i \in DOMAIN hist :
    /\ (IsConfigure(hist[i]) /\ hist[i].ret = -1) =>
         /\ Cardinality({c \in ReportIds(hist[i]) :
                           TagOnTerminal(c, "error")}) = 1
         /\ \A c \in ReportIds(hist[i]) :
              TagOnTerminal(c, "error") =>
                ContextOnTerminal(c, "Logger module")
         /\ (i = Len(hist) /\ pc[MainThread] = "idle") =>
              /\ log_file = 0
              /\ \A h \in DOMAIN streams : ~streams[h].open
         /\ \A j \in DOMAIN hist :
              (/\ i < j
               /\ hist[j].op \in Emitters
               /\ \A k \in (i + 1)..(j - 1) : ~IsConfigure(hist[k]))
                => BodyOnTerminal(hist[j].id) /\ ~InSomeFile(hist[j].id)
    /\ (IsConfigure(hist[i]) /\ i = Len(hist) /\ pc[MainThread] = "idle") =>
         (hist[i].ret = 0 <=> log_file # 0)

\* A log file was configured, the next configure_log_file() failed, and the
\* emitter call after it wrote to the terminal and to no file.
C12_Witness ==
  /\ Len(hist) = 3
  /\ IsConfigure(hist[1]) /\ hist[1].ret = 0
  /\ IsConfigure(hist[2]) /\ hist[2].ret = -1
  /\ hist[3].op \in Emitters
  /\ BodyOnTerminal(hist[3].id)
  /\ ~InSomeFile(hist[3].id)
  /\ ~streams[1].open

\* C13: configure_log_file(path, APPEND) that finds no file at path emits
\* the warning "Could not find log file! Defaulting to write mode!" through
\* the warning emitter (and then opens path in write mode and returns 0): the
\* step that opens the missing file is the call of warning().
C13_AppendMissingWarns ==
  [][\A t \in Threads :
       (/\ At(t, "configure_log_file", "open")
        /\ frame[t].args[2] = "APPEND"
        /\ ~files[frame[t].args[1]].exists
        /\ pc'[t] # pc[t])
         => /\ em'[t].active
            /\ em'[t].kind = "warning"
            /\ em'[t].format =
                 <<"Could not find log file! Defaulting to write mode!",
                   "\n">>]_vars

IsLockCall(h) ==
  h.op \in {"lock_logger_recursive_mutex", "unlock_logger_recursive_mutex"}

\* C16: while thread safety is not enabled, lock_logger_recursive_mutex()
\* and unlock_logger_recursive_mutex() leave the guard alone (it stays
\* disabled, no lock exists, none is held) and each call emits exactly one
\* message, a warning with context "Logger module".
C16_LockWithoutGuard ==
  /\ logger_recursive_mutex = 0
  /\ locks = <<>>
  /\ \A t \in Threads : holds[t] = 0
  /\ \A i \in DOMAIN hist :
       IsLockCall(hist[i]) =>
         /\ Cardinality(ReportIds(hist[i])) = 1
         /\ \A c \in ReportIds(hist[i]) :
              /\ TagOnTerminal(c, "warning")
              /\ ContextOnTerminal(c, "Logger module")
              /\ BodyOnTerminal(c)

\* Both functions were called and have returned.
C16_Witness ==
  /\ Len(hist) = 2
  /\ hist[1].op = "lock_logger_recursive_mutex"
  /\ hist[2].op = "unlock_logger_recursive_mutex"
  /\ TagOnTerminal(hist[2].id + 1, "warning")

\* The items call c wrote to file p, in the order of the file.
Record(p, c) == SelectSeq(files[p].content, LAMBDA item : item.call = c)

\* The number of items of a record that are of the given part.
PartCount(rec, part) ==
  Cardinality({k \in DOMAIN rec : rec[k].part = part})

\* Emitter call c has returned.
EmitterDone(c) == c <= calls /\ \A t \in Threads : em[t].id # c

\* C18: the record an emitter call appends to the log file is one line
\* "[timestamp] context: tag message": a timestamp first, at most one context
\* and one tag, the message body last, and the body ends with a newline.  The
\* context is left out iff the context of the call is NULL and the tag iff
\* the call is message().  This holds for every message the logger writes,
\* the warning of lock/unlock without thread safety included.
C18_OneLinePerCall ==
  \A p \in Paths : \A c \in 1..calls :
    (EmitterDone(c) /\ Record(p, c) # <<>>) =>
      LET rec == Record(p, c) IN
        /\ rec[1].part = "datetime"
        /\ rec[Len(rec)].part = "body"
        /\ PartCount(rec, "datetime") = 1
        /\ PartCount(rec, "body") = 1
        /\ PartCount(rec, "context") <= 1
        /\ PartCount(rec, "tag") <= 1
        /\ rec[Len(rec)].val # <<>>
        /\ rec[Len(rec)].val[Len(rec[Len(rec)].val)] = "\n"
        /\ \A i \in DOMAIN hist :
             (hist[i].id = c /\ hist[i].op \in Emitters) =>
               /\ PartCount(rec, "context") = 0
                    <=> hist[i].args[1] = NullContext
               /\ PartCount(rec, "tag") = 0 <=> hist[i].op = "message"

\* hist[i..j] is one logging session: configure_log_file(path, WRITE)
\* returned 0, only emitter calls followed, and logger_module_clean_up() ended
\* it.
Session(i, j) ==
  /\ i < j
  /\ IsConfigure(hist[i])
  /\ hist[i].args[2] = "WRITE"
  /\ hist[i].ret = 0
  /\ hist[j].op = "logger_module_clean_up"
  /\ \A k \in (i + 1)..(j - 1) : hist[k].op \in Emitters

\* The record of emitter call h as the claim describes it: timestamp, the
\* context unless it is NULL, the tag unless the call is message(), and the
\* format with its arguments substituted.
ExpectedRecord(h) ==
  <<[call |-> h.id, part |-> "datetime", val |-> <<>>]>>
  \o (IF h.args[1] # NullContext
        THEN <<[call |-> h.id, part |-> "context", val |-> h.args[1]]>>
        ELSE <<>>)
  \o (IF h.op # "message"
        THEN <<[call |-> h.id, part |-> "tag", val |-> msg_type(h.op)]>>
        ELSE <<>>)
  \o <<[call |-> h.id, part |-> "body",
        val |-> vformat(h.args[2], va_start(h.args[3]))]>>

RECURSIVE ExpectedLog(_, _)
ExpectedLog(i, j) ==
  IF i > j THEN <<>> ELSE ExpectedRecord(hist[i]) \o ExpectedLog(i + 1, j)

\* An item of a file is the expected one; the text of a timestamp is free.
SameItem(item, expected) ==
  /\ item.call = expected.call
  /\ item.part = expected.part
  /\ item.part # "datetime" => item.val = expected.val

\* C19: after configure_log_file(path, WRITE) returned 0, k emitter calls
\* and logger_module_clean_up(), all by one thread, the file holds exactly
\* the k records of those calls in call order, each with the context, tag
\* and substituted body of its call; nothing the file held before remains,
\* no record is lost and none is written twice.
C19_SessionFile ==
  \A i \in DOMAIN hist : \A j \in DOMAIN hist :
    (Session(i, j) /\ j = Len(hist) /\ pc[MainThread] = "idle") =>
      LET content == files[hist[i].args[1]].content
          expected == ExpectedLog(i + 1, j - 1)
      IN /\ Len(content) = Len(expected)
         /\ \A k \in DOMAIN content : SameItem(content[k], expected[k])
         /\ PartCount(content, "body") = j - i - 1

\* A session over the file of an earlier run, with a message() of NULL
\* context and an error() with a context, has ended.
C19_Witness ==
  /\ Len(hist) = 4
  /\ Session(1, 4)
  /\ hist[1].args[1] = "a.log"
  /\ {hist[2].op, hist[3].op} = {"message", "error"}
  /\ pc[MainThread] = "idle"
  /\ Len(files["a.log"].content) = 6

\* The context, tag and body items of call c in a sequence of items.
TextOf(items, c) ==
  SelectSeq(items, LAMBDA item :
    item.call = c /\ item.part \in {"context", "tag", "body"})

TeardownCalls(t) ==
  \/ CleanUpCall(t)
  \/ EnableThreadSafetyCall(t)
  \/ ConfigureLogFileCall(t, "a.log", "APPEND")
  \/ EmitCalls(t)
  \/ LockMutexCall(t)
  \/ UnlockMutexCall(t)

NextTeardown ==
  \E t \in {MainThread} :
    \/ Budget(MaxTeardownCalls) /\ TeardownCalls(t)
    \/ AcquireLock(t)
    \/ ConfigureStep(t)
    \/ LifecycleStep(t)
    \/ MutexStep(t)
    \/ TerminalStep(t)
    \/ LogStep(t)
    \/ ReturnError(t)
    \/ ReturnVoid(t)

SpecTeardown == InitEmit /\ [][NextTeardown]_vars

IsCleanUp(h) == h.op = "logger_module_clean_up"

\* Thread t is inside logger_module_clean_up().
InCleanUp(t) == pc[t] # "idle" /\ frame[t].op = "logger_module_clean_up"

\* C14: when logger_module_clean_up() has returned the log file is closed
\* and its handle cleared, and the guard is disabled, whatever the state
\* before: the call closes the open file and destroys the lock of the
\* guard.  A call that finds both handles cleared changes nothing: it closes
\* no file and destroys no lock again.
C14_CleanUp ==
  /\ [](\A i \in DOMAIN hist :
          (IsCleanUp(hist[i]) /\ i = Len(hist) /\ pc[MainThread] = "idle")
            => /\ log_file = 0
               /\ logger_recursive_mutex = 0
               /\ \A h \in DOMAIN streams : ~streams[h].open)
  /\ [][\A t \in Threads :
          InCleanUp(t) =>
            /\ (pc[t] = "clean_mutex" /\ logger_recursive_mutex # 0)
                 => locks'[logger_recursive_mutex].state = "freed"
            /\ (log_file = 0 /\ logger_recursive_mutex = 0)
                 => UNCHANGED <<log_file, logger_recursive_mutex, streams,
                                files, locks>>]_vars

\* logger_module_clean_up() was called twice in a row, the first time with
\* the log file open and thread safety enabled.
C14_Witness ==
  /\ Len(hist) = 2
  /\ IsCleanUp(hist[1])
  /\ IsCleanUp(hist[2])
  /\ ~streams[1].open
  /\ locks[1].state = "freed"

\* The part of SpecTeardown without the lock functions, with the thread
\* scheduled: an emitter that can take its next step takes it.
NextAfter ==
  \E t \in {MainThread} :
    \/ Budget(MaxTeardownCalls) /\ CleanUpCall(t)
    \/ Budget(MaxTeardownCalls) /\ EnableThreadSafetyCall(t)
    \/ Budget(MaxTeardownCalls) /\ ConfigureLogFileCall(t, "a.log", "APPEND")
    \/ Budget(MaxTeardownCalls) /\ EmitCalls(t)
    \/ AcquireLock(t)
    \/ ConfigureStep(t)
    \/ LifecycleStep(t)
    \/ TerminalStep(t)
    \/ LogStep(t)
    \/ ReturnError(t)

FairAfter ==
  /\ InitEmit
  /\ [][NextAfter]_vars
  /\ WF_vars(\E t \in {MainThread} : TerminalStep(t) \/ LogStep(t))

IsSetup(op) == op \in {"configure_log_file", "enable_thread_safety"}

\* logger_module_clean_up() has returned and neither configure_log_file()
\* nor enable_thread_safety() was called since.
TornDown ==
  \E i \in DOMAIN hist :
    /\ IsCleanUp(hist[i])
    /\ \A k \in (i + 1)..Len(hist) : ~IsSetup(hist[k].op)
    /\ \A t \in Threads : ~IsSetup(frame[t].op)

\* C15: after logger_module_clean_up() and until the next
\* configure_log_file() or enable_thread_safety(), every emitter call writes
\* its message to the terminal and nothing to any file, no step of it
\* acquires or releases a lock, and the call completes.
C15_AfterCleanUp ==
  /\ [](\A i, j \in DOMAIN hist :
          (/\ i < j
           /\ IsCleanUp(hist[i])
           /\ hist[j].op \in Emitters
           /\ \A k \in (i + 1)..(j - 1) : ~IsSetup(hist[k].op))
            => BodyOnTerminal(hist[j].id) /\ ~InSomeFile(hist[j].id))
  /\ [][\A t \in Threads :
          (TornDown /\ em[t].active) => UNCHANGED <<locks, files>>]_vars
  /\ (TornDown /\ em[MainThread].active) ~> ~em[MainThread].active

\* The module was torn down with the log file open, and an emitter call made
\* after that has returned: its message is on the terminal and in no file.
C15_Witness ==
  /\ Len(hist) = 2
  /\ IsCleanUp(hist[1])
  /\ hist[2].op \in Emitters
  /\ BodyOnTerminal(hist[2].id)
  /\ ~InSomeFile(hist[2].id)
  /\ files["a.log"].exists
  /\ logger_recursive_mutex = 0

\* C17: once thread safety is enabled the guard stays enabled until
\* logger_module_clean_up() is called: the handle of the mutex is cleared by
\* no step other than a step of logger_module_clean_up().
C17_GuardStays ==
  [][(logger_recursive_mutex # 0 /\ logger_recursive_mutex' = 0)
       => \E t \in Threads : InCleanUp(t)]_vars

(***************************************************************************)
(* FairGuard: the threads of sample.c once thread safety is enabled.  They *)
(* emit messages, reconfigure the log file in APPEND mode and bracket      *)
(* their code with lock_logger_recursive_mutex() and                       *)
(* unlock_logger_recursive_mutex().  The scheduler is fair to every        *)
(* thread, and a thread that locked the guard unlocks it as often.         *)
(***************************************************************************)
GuardCalls(t) ==
  \/ Emit(t, "error", ThreadContext(t), InputFormat, InputArgs)
  \/ ConfigureLogFileCall(t, "a.log", "APPEND")
  \/ LockMutexCall(t)
  \/ UnlockMutexCall(t)

\* thread_example(): every lock_logger_recursive_mutex() is followed by an
\* unlock_logger_recursive_mutex().
Unbracket(t) == holds[t] > 0 /\ UnlockMutexCall(t)

\* The steps of a call of thread t, once the call is made.
GuardStep(t) ==
  \/ AcquireLock(t)
  \/ ConfigureStep(t)
  \/ MutexStep(t)
  \/ TerminalStep(t)
  \/ LogStep(t)
  \/ ReturnError(t)

NextGuard ==
  \E t \in Threads :
    \/ Budget(MaxGuardCalls) /\ GuardCalls(t)
    \/ Unbracket(t)
    \/ GuardStep(t)

FairGuard ==
  /\ InitLock
  /\ [][NextGuard]_vars
  /\ \A t \in Threads : WF_vars(GuardStep(t) \/ Unbracket(t))

\* No thread other than t owns the guard.
GuardAvailable(t) ==
  logger_recursive_mutex # 0
    => locks[logger_recursive_mutex].owner \in {NoThread, t}

\* C21: with thread safety enabled no logger operation deadlocks on itself.
\* A thread inside a logger call can take its next step whenever no other
\* thread owns the guard, also where the call nests guarded calls while it
\* holds the guard (the emitters; configure_log_file() with its warning).
\* Under fair scheduling, with every lock_logger_recursive_mutex() matched
\* by an unlock_logger_recursive_mutex(), every call of every thread returns.
C21_NoSelfDeadlock ==
  /\ [](\A t \in Threads :
          (pc[t] # "idle" /\ GuardAvailable(t)) => ENABLED GuardStep(t))
  /\ \A t \in Threads : (pc[t] # "idle") ~> (pc[t] = "idle")

\* configure_log_file() emits its warning: the thread holds the guard twice,
\* and the other thread is suspended in a logger call.
C21_Witness ==
  \E t, u \in Threads :
    /\ t # u
    /\ frame[t].op = "configure_log_file"
    /\ em[t].active
    /\ em[t].kind = "warning"
    /\ locks[logger_recursive_mutex].owner = t
    /\ locks[logger_recursive_mutex].count = 2
    /\ Suspended(u)

(***************************************************************************)
(* SpecConfigure: with thread safety enabled, the threads call             *)
(* configure_log_file() at the same time; fopen() may fail for any call.   *)
(***************************************************************************)
ConfigureCalls(t) ==
  \E file_name \in Paths, file_mode \in LogFileMode :
    ConfigureLogFileCall(t, file_name, file_mode)

NextConfigure ==
  \E t \in Threads :
    \/ Budget(MaxConfigureCalls) /\ ConfigureCalls(t)
    \/ AcquireLock(t)
    \/ ConfigureStep(t)
    \/ TerminalStep(t)
    \/ LogStep(t)
    \/ ReturnError(t)

SpecConfigure == InitLock /\ [][NextConfigure]_vars

\* The configure_log_file() calls that returned ret.
ConfigureReturns(ret) ==
  {i \in DOMAIN hist : IsConfigure(hist[i]) /\ hist[i].ret = ret}

\* The "Could not create log file!" messages on the terminal.
CreateErrors ==
  {k \in DOMAIN terminal :
     /\ terminal[k].part = "body"
     /\ terminal[k].val =
          <<"Could not create log file! Please check your system.", "\n">>}

\* C22: with thread safety enabled and configure_log_file() called by
\* several threads at once, a call returns 0 if and only if its own open
\* attempt succeeded and -1, after the "Could not create log file!" error,
\* if and only if it failed, whatever the calls of the other threads do to
\* the log file handle.  Every successful open hands out one stream and a
\* call opens at most one: once no call is in progress, as many calls have
\* returned 0 as streams were opened, and as many errors were printed as
\* calls have returned -1.
C22_OwnOutcome ==
  (\A t \in Threads : pc[t] = "idle") =>
    /\ Cardinality(ConfigureReturns(0)) = Len(streams)
    /\ Cardinality(ConfigureReturns(-1)) = Cardinality(CreateErrors)

(***************************************************************************)
(* SpecLifecycle: one thread enables thread safety, more than once, tears  *)
(* the module down, and uses the guard and an emitter in between.  The     *)
(* behaviours start in the initial state of the module.                    *)
(***************************************************************************)
LifecycleCalls(t) ==
  \/ EnableThreadSafetyCall(t)
  \/ CleanUpCall(t)
  \/ LockMutexCall(t)
  \/ UnlockMutexCall(t)
  \/ Emit(t, "error", ThreadContext(t), InputFormat, InputArgs)

NextLifecycle ==
  \E t \in {MainThread} :
    \/ Budget(MaxLifecycleCalls) /\ LifecycleCalls(t)
    \/ LifecycleStep(t)
    \/ MutexStep(t)
    \/ TerminalStep(t)
    \/ ReturnError(t)
    \/ ReturnVoid(t)

SpecLifecycle == Init /\ [][NextLifecycle]_vars

\* hist[i] is an enable_thread_safety() that created a lock.
IsEnabled(h) == h.op = "enable_thread_safety" /\ h.ret = 0

IsLifecycle(h) ==
  h.op \in {"enable_thread_safety", "logger_module_clean_up"}

\* The lock hist[i] created: malloc() hands out the locks in order.
LockOf(i) == Cardinality({k \in 1..i : IsEnabled(hist[k])})

\* hist[j] is a second enable_thread_safety() after hist[i], with no
\* logger_module_clean_up() (and no other enable_thread_safety()) between.
SecondEnable(i, j) ==
  /\ i < j
  /\ IsEnabled(hist[i])
  /\ IsEnabled(hist[j])
  /\ \A k \in (i + 1)..(j - 1) : ~IsLifecycle(hist[k])

\* No call of enable_thread_safety() or logger_module_clean_up() was made
\* after hist[j].
NoLifecycleSince(j) ==
  /\ \A k \in (j + 1)..Len(hist) : ~IsLifecycle(hist[k])
  /\ \A t \in Threads : ~InLifecycle(t)

\* C23: a second enable_thread_safety() without a logger_module_clean_up()
\* in between makes the guard handle point to a newly created lock and
\* leaves the first lock as it is.  The first lock is never destroyed or
\* freed afterwards: the logger_module_clean_up() that follows destroys the
\* second lock only.
C23_SecondEnableLeaks ==
  \A i \in DOMAIN hist : \A j \in DOMAIN hist :
    SecondEnable(i, j) =>
      /\ LockOf(j) # LockOf(i)
      /\ locks[LockOf(i)].state = "live"
      /\ NoLifecycleSince(j) =>
           /\ logger_recursive_mutex = LockOf(j)
           /\ locks[LockOf(j)].state = "live"
      /\ \A m \in (j + 1)..Len(hist) :
           (IsCleanUp(hist[m])
              /\ \A k \in (j + 1)..(m - 1) : ~IsLifecycle(hist[k]))
             => locks[LockOf(j)].state = "freed"

\* enable_thread_safety() was called twice, logger_module_clean_up() after
\* that, and the guard was used in between.
C23_Witness ==
  \E i, j, m \in DOMAIN hist :
    /\ SecondEnable(i, j)
    /\ j < m
    /\ IsCleanUp(hist[m])
    /\ m < Len(hist)
    /\ Len(locks) = 2
    /\ locks[1].state = "live"
    /\ locks[2].state = "freed"
    /\ logger_recursive_mutex = 0

(***************************************************************************)
(* SpecStyle: main() of sample.c assigns colours (lines 109-121) and calls *)
(* the emitters, with and without a context.  The behaviours start with    *)
(* the built-in pallet, thread safety enabled and the log file open.       *)
(***************************************************************************)
StyleCalls(t) ==
  \/ \E category \in {"INFO_MSG", "DEFAULT_MSG"},
        assigned_colors \in InputColors :
       SetMsgColorsCall(t, TRUE, category, assigned_colors)
  \/ \E category \in {"CONTEXT_TAG", "INFO_TAG"},
        assigned_colors \in InputColors :
       SetTagColorsCall(t, TRUE, category, assigned_colors)
  \/ \E context \in {NullContext, ThreadContext(t)} :
       Emit(t, "message", context, InputFormat, InputArgs)
  \/ \E kind \in {"info", "error"} :
       Emit(t, kind, ThreadContext(t), InputFormat, InputArgs)

NextStyle ==
  \E t \in {MainThread} :
    \/ Budget(MaxStyleCalls) /\ StyleCalls(t)
    \/ SetMsgColorsCheck(t)
    \/ SetMsgColorsCopy(t)
    \/ SetTagColorsCheck(t)
    \/ SetTagColorsCopy(t)
    \/ TerminalStep(t)
    \/ LogStep(t)
    \/ AcquireLock(t)
    \/ ReleaseLock(t)

SpecStyle == InitEmit /\ [][NextStyle]_vars

\* The pallet after the first n calls of the history, computed from the
\* calls alone: a setter that returned 0 stores its colours in its category,
\* reset_logger_colors() restores the built-in colours, no other call
\* changes a colour.
RECURSIVE PalletAfter(_)
PalletAfter(n) ==
  IF n = 0 THEN default_color_pallet
  ELSE LET h == hist[n]
           before == PalletAfter(n - 1)
       IN IF h.op = "set_logger_msg_colors" /\ h.ret = 0
            THEN [before EXCEPT !.message_colors[h.args[2]] = h.args[3]]
          ELSE IF h.op = "set_logger_tag_colors" /\ h.ret = 0
            THEN [before EXCEPT !.tag_colors[h.args[2]] = h.args[3]]
          ELSE IF h.op = "reset_logger_colors"
            THEN default_color_pallet
          ELSE before

\* The colours an emitter call of the given kind and context selects from
\* pallet p, in the order of its terminal writes: those of the context tag
\* when there is a context, those of the tag of its category unless it is
\* message(), those of the message of its category.
StyleOf(kind, context, p) ==
  (IF context # NullContext
     THEN <<p.tag_colors["CONTEXT_TAG"].text_color,
            p.tag_colors["CONTEXT_TAG"].background_color>>
     ELSE <<>>)
  \o (IF kind = "error"
        THEN <<p.tag_colors["ERROR_TAG"].text_color,
               p.tag_colors["ERROR_TAG"].background_color>>
      ELSE IF kind = "info"
        THEN <<p.tag_colors["INFO_TAG"].text_color,
               p.tag_colors["INFO_TAG"].background_color>>
      ELSE IF kind = "success"
        THEN <<p.tag_colors["SUCCESS_TAG"].text_color,
               p.tag_colors["SUCCESS_TAG"].background_color>>
      ELSE IF kind = "warning"
        THEN <<p.tag_colors["WARNING_TAG"].text_color,
               p.tag_colors["WARNING_TAG"].background_color>>
      ELSE <<>>)
  \o (LET category == CASE kind = "error"   -> "ERROR_MSG"
                        [] kind = "info"    -> "INFO_MSG"
                        [] kind = "success" -> "SUCCESS_MSG"
                        [] kind = "warning" -> "WARNING_MSG"
                        [] kind = "message" -> "DEFAULT_MSG"
      IN <<p.message_colors[category].text_color,
           p.message_colors[category].background_color>>)

\* The layout of the terminal writes of such a call.
LayoutOf(kind, context) ==
  (IF context # NullContext
     THEN <<"color_text", "color_background", "context">> ELSE <<>>)
  \o (IF kind # "message"
        THEN <<"color_text", "color_background", "tag">> ELSE <<>>)
  \o <<"color_text", "color_background", "body", "reset_colors">>

\* The terminal writes of call c, and the colours among them.
Shown(c) == SelectSeq(terminal, LAMBDA item : item.call = c)

ColoursOf(items) ==
  SelectSeq(items, LAMBDA item :
    item.part \in {"color_text", "color_background"})

\* C24: every emitter call styles its output with the colours stored when
\* it is called: the context with the colours of CONTEXT_TAG, the tag with
\* the tag colours of its category and the body with the message colours of
\* its category.  After a setter stored colours C for a category, the
\* emitters of that category use C and the others are styled as before.
C24_StyledFromPallet ==
  \A i \in DOMAIN hist :
    hist[i].op \in Emitters =>
      LET shown == Shown(hist[i].id)
          colours == ColoursOf(shown)
          style == StyleOf(hist[i].op, hist[i].args[1], PalletAfter(i - 1))
          layout == LayoutOf(hist[i].op, hist[i].args[1])
      IN /\ Len(shown) = Len(layout)
         /\ \A k \in DOMAIN shown : shown[k].part = layout[k]
         /\ Len(colours) = Len(style)
         /\ \A k \in DOMAIN colours : colours[k].val = style[k]

\* The colours of INFO_MSG were assigned, and an info() with a context and
\* a message() were emitted after that.
C24_Witness ==
  \E i, j, k \in DOMAIN hist :
    /\ i < j
    /\ i < k
    /\ hist[i].op = "set_logger_msg_colors"
    /\ hist[i].args[2] = "INFO_MSG"
    /\ hist[i].ret = 0
    /\ hist[j].op = "info"
    /\ hist[k].op = "message"
    /\ logger_color_pallet.message_colors["INFO_MSG"]
         # default_color_pallet.message_colors["INFO_MSG"]

\* C27: when an emitter call returns the terminal styling is the default
\* one, whatever colours are configured for its category and for the
\* context: the call resets the styling (attributes and the background of
\* the rest of the line) once, as its last terminal write, and writes its
\* record to the log file only after that.
C27_ResetLast ==
  /\ [](\A i \in DOMAIN hist :
          hist[i].op \in Emitters =>
            LET shown == Shown(hist[i].id) IN
              /\ shown # <<>>
              /\ shown[Len(shown)].part = "reset_colors"
              /\ PartCount(shown, "reset_colors") = 1)
  /\ []((terminal # <<>> /\ \A t \in Threads : ~em[t].active)
          => terminal[Len(terminal)].part = "reset_colors")
  /\ [][\A t \in Threads :
          (em[t].active /\ files' # files) =>
            PartCount(Shown(em[t].id), "reset_colors") = 1]_vars

\* The colours of the context tag and of the info message were assigned and
\* an info() with a context has returned with its record in the log file.
C27_Witness ==
  /\ Len(hist) = 3
  /\ hist[3].op = "info"
  /\ logger_color_pallet.tag_colors["CONTEXT_TAG"]
       # default_color_pallet.tag_colors["CONTEXT_TAG"]
  /\ logger_color_pallet.message_colors["INFO_MSG"]
       # default_color_pallet.message_colors["INFO_MSG"]
  /\ Record("a.log", hist[3].id) # <<>>

(***************************************************************************)
(* SpecNull: one thread calls the getters and the setters, also with a     *)
(* NULL pointer.  The behaviours start where SpecEmit starts: thread       *)
(* safety is enabled and the log file is open.                             *)
(***************************************************************************)
PointerCalls(t) ==
  \E valid \in BOOLEAN :
    \/ GetMsgColorsCall(t, valid, "INFO_MSG")
    \/ GetTagColorsCall(t, valid, "INFO_TAG")
    \/ GetTimeFormatCall(t, valid)
    \/ SetMsgColorsCall(t, valid, "INFO_MSG", DisplayColors("B_WHT", "CYN"))
    \/ SetTagColorsCall(t, valid, "INFO_TAG", DisplayColors("B_BLA", "CYN"))
    \/ SetTimeFormatCall(t, valid, <<"%", "c">>)

NextNull ==
  \E t \in {MainThread} :
    \/ Budget(MaxNullCalls) /\ PointerCalls(t)
    \/ GetMsgColorsCheck(t)
    \/ GetMsgColorsCopy(t)
    \/ GetTagColorsCheck(t)
    \/ GetTagColorsCopy(t)
    \/ SetMsgColorsCheck(t)
    \/ SetMsgColorsCopy(t)
    \/ SetTagColorsCheck(t)
    \/ SetTagColorsCopy(t)
    \/ TimeFormatStep(t)
    \/ TerminalStep(t)
    \/ LogStep(t)
    \/ AcquireLock(t)
    \/ ReleaseLock(t)
    \/ ReturnError(t)

SpecNull == InitEmit /\ [][NextNull]_vars

\* A getter called with a NULL destination or a setter called with a NULL
\* source.
PointerOps ==
  {"get_logger_msg_colors", "get_logger_tag_colors", "get_time_format",
   "set_logger_msg_colors", "set_logger_tag_colors", "set_time_format"}

IsNullCall(h) == h.op \in PointerOps /\ ~h.args[1]

\* C26: a getter called with a NULL destination and a setter called with a
\* NULL source return -1 and emit exactly one error message with context
\* "Logger module"; no step of the call changes the pallet, the time format,
\* the log file handle or the handle of the guard, and the call returns
\* with the guard as free as it found it.
C26_NullPointer ==
  /\ [](\A i \in DOMAIN hist :
          IsNullCall(hist[i]) =>
            /\ hist[i].ret = -1
            /\ Cardinality(ReportIds(hist[i])) = 1
            /\ \A c \in ReportIds(hist[i]) :
                 /\ TagOnTerminal(c, "error")
                 /\ ContextOnTerminal(c, "Logger module")
                 /\ BodyOnTerminal(c))
  /\ [][\A t \in Threads :
          IsNullCall(frame[t]) =>
            /\ UNCHANGED <<logger_color_pallet, time_fmt, log_file, streams,
                           logger_recursive_mutex>>
            /\ pc'[t] = "idle" =>
                 locks'[logger_recursive_mutex] = NewLock]_vars

\* A setter stored colours, and a setter and a getter called with NULL after
\* that have returned.
C26_Witness ==
  /\ Len(hist) = 3
  /\ hist[1].op = "set_logger_msg_colors"
  /\ hist[1].ret = 0
  /\ hist[2].op = "set_logger_tag_colors"
  /\ IsNullCall(hist[2])
  /\ hist[3].op = "get_time_format"
  /\ IsNullCall(hist[3])
  /\ logger_color_pallet # default_color_pallet

\* The step leaves the log file handle, the streams and the handle of the
\* guard alone, and the guard is free when the step returns from the call.
SinkAndGuardKept(t) ==
  /\ UNCHANGED <<log_file, streams, logger_recursive_mutex>>
  /\ pc'[t] = "idle" => locks'[logger_recursive_mutex] = NewLock

\* C29: set_logger_msg_colors(cat, C) changes message_colors[cat] only,
\* set_logger_tag_colors(cat, C) changes tag_colors[cat] only and
\* set_time_format() changes the time format only: no step of the call
\* changes another category, the other table, the other store, the log file
\* handle or the guard handle, and the call returns with the guard free.
C29_SetterFrame ==
  [][\A t \in Threads :
       /\ frame[t].op = "set_logger_msg_colors" =>
            /\ \A category \in MessageCategory \ {frame[t].args[2]} :
                 logger_color_pallet'.message_colors[category]
                   = logger_color_pallet.message_colors[category]
            /\ logger_color_pallet'.tag_colors
                 = logger_color_pallet.tag_colors
            /\ UNCHANGED time_fmt
            /\ SinkAndGuardKept(t)
       /\ frame[t].op = "set_logger_tag_colors" =>
            /\ \A category \in TagCategory \ {frame[t].args[2]} :
                 logger_color_pallet'.tag_colors[category]
                   = logger_color_pallet.tag_colors[category]
            /\ logger_color_pallet'.message_colors
                 = logger_color_pallet.message_colors
            /\ UNCHANGED time_fmt
            /\ SinkAndGuardKept(t)
       /\ frame[t].op = "set_time_format" =>
            /\ UNCHANGED logger_color_pallet
            /\ SinkAndGuardKept(t)]_vars

\* The three setters have stored their values: the message colours, the
\* tag colours and the time format differ from the built-in ones.
C29_Witness ==
  /\ Len(hist) = 3
  /\ \A i \in DOMAIN hist : hist[i].ret = 0
  /\ logger_color_pallet.message_colors["INFO_MSG"]
       = DisplayColors("B_WHT", "CYN")
  /\ logger_color_pallet.tag_colors["INFO_TAG"]
       = DisplayColors("B_BLA", "CYN")
  /\ CharsOf(time_fmt) = <<"%", "c">>

(***************************************************************************)
(* SpecStamp: main() of sample.c changes the time format while the log     *)
(* file is open (lines 147-150) and emits messages.  The formats are       *)
(* shorter than TIME_FMT_SIZE; "%c%c" and the format of 49 characters      *)
(* expand to more than TimeStringSize characters.                          *)
(***************************************************************************)
StampFormats == {<<"%", "c">>, <<"%", "c", "%", "c">>, Fill(TIME_FMT_SIZE - 1)}

StampCalls(t) ==
  \/ \E new_format \in StampFormats : SetTimeFormatCall(t, TRUE, new_format)
  \/ Emit(t, "error", ThreadContext(t), InputFormat, InputArgs)

NextStamp ==
  \E t \in {MainThread} :
    \/ Budget(MaxStampCalls) /\ StampCalls(t)
    \/ SetTimeFormatCheck(t)
    \/ SetTimeFormatCopy(t)
    \/ TerminalStep(t)
    \/ LogStep(t)
    \/ AcquireLock(t)
    \/ ReleaseLock(t)

SpecStamp == InitEmit /\ [][NextStamp]_vars

\* The time format in force after the first n calls of the history: the
\* argument of the last set_time_format() that returned 0, the built-in
\* format when there is none.
RECURSIVE FormatAfter(_)
FormatAfter(n) ==
  IF n = 0 THEN DefaultTimeFormat
  ELSE IF hist[n].op = "set_time_format" /\ hist[n].ret = 0
    THEN hist[n].args[2]
  ELSE FormatAfter(n - 1)

\* C28: for every time format that set_time_format() accepted, the
\* timestamp of a log record is the strftime() expansion of the format in
\* force when the emitter is called, also when the expansion has
\* TimeStringSize characters or more.
C28_TimestampExpansion ==
  \A i \in DOMAIN hist :
    hist[i].op \in Emitters =>
      \A k \in DOMAIN files["a.log"].content :
        LET item == files["a.log"].content[k] IN
          (item.call = hist[i].id /\ item.part = "datetime")
            => item.val = strftime(FormatAfter(i - 1))

\* color_text(), color_background() and reset_colors() called by the user.
TerminalCalls(t) ==
  \/ ColorTextCall(t, "BLU")
  \/ ColorBackgroundCall(t, "B_GRN")
  \/ ResetColorsCall(t)

TerminalColorStep(t) ==
  \/ ColorText(t)
  \/ ColorBackground(t)
  \/ ResetColors(t)

(***************************************************************************)
(* SpecBalance: with thread safety enabled the main thread calls every     *)
(* public function except enable_thread_safety() and                       *)
(* logger_module_clean_up(), with valid and with NULL arguments, while the *)
(* other thread does what thread_example() does: it emits messages and     *)
(* colours the terminal.  Both bracket their calls with                    *)
(* lock_logger_recursive_mutex() / unlock_logger_recursive_mutex().        *)
(***************************************************************************)
BalanceCalls(t) ==
  \/ \E kind \in Emitters :
       Emit(t, kind, ThreadContext(t), InputFormat, InputArgs)
  \/ TerminalCalls(t)
  \/ LockMutexCall(t)
  \/ UnlockMutexCall(t)
  \/ /\ t = MainThread
     /\ \/ \E valid \in BOOLEAN :
             \/ GetMsgColorsCall(t, valid, "INFO_MSG")
             \/ GetTagColorsCall(t, valid, "INFO_TAG")
             \/ GetTimeFormatCall(t, valid)
             \/ SetMsgColorsCall(t, valid, "INFO_MSG",
                                 DisplayColors("B_WHT", "CYN"))
             \/ SetTagColorsCall(t, valid, "INFO_TAG",
                                 DisplayColors("B_BLA", "CYN"))
             \/ SetTimeFormatCall(t, valid, <<"%", "c">>)
        \/ SetTimeFormatCall(t, TRUE, Fill(TIME_FMT_SIZE + 1))
        \/ ResetLoggerColorsCall(t)
        \/ ConfigureLogFileCall(t, "a.log", "APPEND")

NextBalance ==
  \E t \in Threads :
    \/ Budget(MaxBalanceCalls) /\ BalanceCalls(t)
    \/ Unbracket(t)
    \/ ColorStep(t)
    \/ TimeFormatStep(t)
    \/ TerminalColorStep(t)
    \/ MutexStep(t)
    \/ ConfigureStep(t)
    \/ TerminalStep(t)
    \/ LogStep(t)
    \/ AcquireLock(t)
    \/ ReleaseLock(t)
    \/ ReturnError(t)

SpecBalance == InitLock /\ [][NextBalance]_vars

\* The number of times thread t holds the guard.
HoldCount(t) ==
  IF locks[logger_recursive_mutex].owner = t
    THEN locks[logger_recursive_mutex].count ELSE 0

\* C30: with thread safety enabled, every public function other than
\* lock_logger_recursive_mutex() and unlock_logger_recursive_mutex() returns
\* with the guard held by its thread as often as at entry, on every path:
\* a thread that is in no logger call holds the guard exactly as often as
\* its lock calls exceed its unlock calls, and a step that returns from a
\* call other than lock and unlock leaves the thread's hold count at what
\* it was when the call was made.  Hence the guard is free when no thread
\* is in a call or in a bracket.
C30_LockBalance ==
  /\ [](\A t \in Threads : pc[t] = "idle" => HoldCount(t) = holds[t])
  /\ []((\A t \in Threads : pc[t] = "idle" /\ holds[t] = 0)
          => locks[logger_recursive_mutex] = NewLock)
  /\ [][\A t \in Threads :
          (/\ pc[t] # "idle"
           /\ pc'[t] = "idle"
           /\ frame[t].op \notin {"lock_logger_recursive_mutex",
                                  "unlock_logger_recursive_mutex"})
            => /\ holds'[t] = holds[t]
               /\ locks'[logger_recursive_mutex].owner = t
                    => locks'[logger_recursive_mutex].count = holds[t]
               /\ locks'[logger_recursive_mutex].owner # t
                    => holds[t] = 0]_vars

\* A thread is in a bracket, and a call it made inside the bracket has
\* returned -1 after its error message.
C30_Witness ==
  \E t \in Threads :
    /\ pc[t] = "idle"
    /\ holds[t] = 1
    /\ HoldCount(t) = 1
    /\ Len(hist) = 2
    /\ hist[1].op = "lock_logger_recursive_mutex"
    /\ hist[2].t = t
    /\ hist[2].ret = -1

(***************************************************************************)
(* Spec: the whole module from its initial state, every public function    *)
(* callable by every thread.                                               *)
(***************************************************************************)
Next ==
  \E t \in Threads :
    \/ Budget(MaxCalls) /\ MayCall(t) /\ EmitCalls(t)
    \/ Budget(MaxCalls) /\ MayCall(t) /\ ColorCalls(t)
    \/ Budget(MaxCalls) /\ MayCall(t) /\ TimeFormatCalls(t)
    \/ Budget(MaxCalls) /\ MayCall(t) /\ TerminalCalls(t)
    \/ Budget(MaxCalls) /\ MayCall(t) /\ LockMutexCall(t)
    \/ Budget(MaxCalls) /\ MayCall(t) /\ UnlockMutexCall(t)
    \/ Budget(MaxCalls) /\ MayCall(t)
         /\ \E file_name \in Paths, file_mode \in LogFileMode :
              ConfigureLogFileCall(t, file_name, file_mode)
    \/ Budget(MaxCalls) /\ OthersIdle(t) /\ EnableThreadSafetyCall(t)
    \/ Budget(MaxCalls) /\ OthersIdle(t) /\ CleanUpCall(t)
    \/ ColorStep(t)
    \/ TimeFormatStep(t)
    \/ TerminalColorStep(t)
    \/ MutexStep(t)
    \/ ConfigureStep(t)
    \/ LifecycleStep(t)
    \/ TerminalStep(t)
    \/ LogStep(t)
    \/ AcquireLock(t)
    \/ ReleaseLock(t)
    \/ ReturnError(t)
    \/ ReturnVoid(t)

Spec == Init /\ [][Next]_vars

====
